---------------------------- MODULE Spec2Model ----------------------------
(***************************************************************************)
(* Concurrency guardrails of the voice-soundboard MCP server:              *)
(*   SynthesisSemaphore  (packages/mcp-server/src/concurrency.ts)          *)
(*   ToolRateLimiter     (rateLimit.ts)                                    *)
(*   withTimeout         (timeout.ts)                                      *)
(*                                                                         *)
(* The program runs on one JavaScript thread.  A step of the model is one  *)
(* synchronous section of code: either code of the caller (the variable    *)
(* user is TRUE while caller code is on the stack) or one job taken from   *)
(* the head of the FIFO microtask queue mq.  A promise reaction (the code  *)
(* after an await) is appended to mq when the awaited promise settles.     *)
(***************************************************************************)
EXTENDS Integers, Sequences, FiniteSets, TLC

VARIABLES
    \* ---- SynthesisSemaphore ----
    maxConcurrent,  \* constructor argument
    running,        \* this.running
    queue,          \* this.queue: the resolve functions, named by their caller
    pc,             \* position of each run() call
    outcome,        \* how each caller's fn settled
    result,         \* how each caller's run() promise settled
    mq,             \* microtask queue of the JavaScript engine
    user,           \* caller code is on the stack
    calls,          \* history: number of run() calls made so far; the k-th
                    \* call is made by caller k
    released,       \* history: number of times each call ran running--
    wasQueued,      \* history: the callers that were pushed on the queue
    \* ---- ToolRateLimiter ----
    config,         \* this.config: [maxCalls, windowMs]
    buckets,        \* this.buckets: the timestamps kept for each tool name
    present,        \* the keys of this.buckets
    now,            \* the clock read by check()
    lastCheck,      \* the last check() call: its key, time, return value
                    \* and the number of timestamps it shifted out
    admitted,       \* history: per tool, the times of the calls admitted
                    \* since construction or the last clear() that lie in
                    \* the window (now - windowMs, now]
    \* ---- withTimeout ----
    toMs,           \* the argument ms
    toPc,           \* "idle" before the call, "called" after it
    toFn,           \* the promise returned by fn
    toTimer,        \* the timer created by setTimeout
    toDue,          \* the time at which the timer is due
    toStart,        \* history: the time of the call
    toFnAt,         \* history: the time at which the promise of fn settled
    toResult,       \* the promise returned by withTimeout
    toClock,        \* the time in milliseconds
    \* ---- runPlan / runEmotionPlan ----
    oRunner,        \* which of the two functions is called
    oUpstream,      \* the number of warnings of plan.warnings (runPlan) or
                    \* of parseEmotionSpans (runEmotionPlan)
    oSpans,         \* what chunkText returns for each text to synthesize:
                    \* the plain text of the plan (runPlan, at most one
                    \* entry, none when the text is empty) or the text of
                    \* each emotion span (runEmotionPlan)
    oOpts,          \* options: concat, artifactMode, outputDir given or not
    oAborted,       \* options.signal.aborted
    oPc,            \* "idle", "synth" (awaiting synthesize), "concat"
                    \* (awaiting concatWav...), "returned", "threw"
    oSpan,          \* spanIdx (0 in runPlan)
    oI,             \* the index of the chunk inside its span (i in runPlan)
    oGlobal,        \* globalChunkIndex
    oArtifacts,     \* artifacts
    oInterrupted,   \* interrupted
    oWarnings,      \* warnings
    oCalls,         \* history: the calls of synthesize, in order
    oResult,        \* the SpeechResult returned
    oThrown,        \* the error that the promise of the runner rejected
                    \* with: <<>> for none, the error of the k-th
                    \* synthesize call is <<"err", k>>
    \* ---- createServer: the voice_speak and voice_dialogue tools ----
    requestTimeoutMs, \* the option requestTimeoutMs
    sReqs,          \* the number of tool calls received
    sTool,          \* per request, the tool called
    sCaller,        \* per request, its call of semaphore.run (0: none)
    sTimer,         \* per request, the timer of its withTimeout
    sDue,           \* per request, the time at which that timer is due
    sSeen,          \* per request, whether the then-callbacks of its
                    \* withTimeout have run
    sResp,          \* per request, the response returned to the client
    sResponses,     \* history: per request, the number of responses
    \* ---- chunkText ----
    chText,         \* the argument text
    chOptions,      \* the argument options
    chDone,         \* chunkText has returned
    chResult,       \* the ChunkResult returned
    \* ---- parseSsmlLite ----
    ssInput,        \* the argument input
    ssPc,           \* "idle", "returned" or "threw"
    ssPlan,         \* the SpeechPlan returned
    \* ---- parseDialogue ----
    dgScript,       \* the lines of the argument script
    dgOptions,      \* the argument options: cast, and maxSpeakers and
                    \* maxCues as the pair caps
    dgPc,           \* "idle", "returned" or "threw"
    dgThrew,        \* the message of the DialogueParseError thrown
    dgSheet,        \* the CueSheet returned
    \* ---- resolveCast ----
    rcSpeakers,     \* the argument speakers
    rcCast,         \* the argument explicitCast
    rcPc,           \* "idle" or "returned"
    rcOut,          \* the map returned, with usedVoices, autoIdx and the
                    \* warnings pushed
    \* ---- parseSfxTags ----
    sfText,         \* the argument text
    sfEnabled,      \* the argument enabled
    sfPc,           \* "idle" or "returned"
    sfResult,       \* the SfxParseResult returned
    \* ---- parseEmotionSpans ----
    emText,         \* the argument text
    emPc,           \* "idle" or "returned"
    emResult,       \* the EmotionParseResult returned
    \* ---- concatWavBase64 ----
    wvChunks,       \* the argument chunks
    wvPc,           \* "idle", "returned" or "threw"
    wvOut           \* the WAV file and the durationMs returned

semVars == <<maxConcurrent, running, queue, pc, outcome, result, mq, user,
             calls, released, wasQueued>>

rateVars == <<config, buckets, present, now, lastCheck, admitted>>

toVars == <<toMs, toPc, toFn, toTimer, toDue, toStart, toFnAt, toResult,
           toClock>>

orchVars == <<oRunner, oUpstream, oSpans, oOpts, oAborted, oPc, oSpan, oI,
             oGlobal, oArtifacts, oInterrupted, oWarnings, oCalls, oResult,
             oThrown>>

srvVars == <<requestTimeoutMs, sReqs, sTool, sCaller, sTimer, sDue, sSeen,
            sResp, sResponses>>

chunkVars == <<chText, chOptions, chDone, chResult>>

ssmlVars == <<ssInput, ssPc, ssPlan>>

dgVars == <<dgScript, dgOptions, dgPc, dgThrew, dgSheet>>

castVars == <<rcSpeakers, rcCast, rcPc, rcOut>>

sfxVars == <<sfText, sfEnabled, sfPc, sfResult>>

emoVars == <<emText, emPc, emResult>>

wavVars == <<wvChunks, wvPc, wvOut>>

\* The functions of the dialogue, effects and audio modules.
moreVars == <<castVars, sfxVars, emoVars, wavVars>>

\* The synchronous text functions.
textVars == <<chunkVars, ssmlVars, dgVars, moreVars>>

vars == <<semVars, rateVars, toVars, orchVars, srvVars, textVars>>

\* What a step of one component leaves alone.
exceptSem == <<rateVars, toVars, orchVars, srvVars, textVars>>
exceptRate == <<semVars, toVars, orchVars, srvVars, textVars>>
exceptTo == <<semVars, rateVars, orchVars, srvVars, textVars>>
exceptOrch == <<semVars, rateVars, toVars, srvVars, textVars>>
exceptServer == <<toVars, orchVars, textVars>>
exceptText == <<semVars, rateVars, toVars, orchVars, srvVars>>
exceptChunk == <<exceptText, ssmlVars, dgVars, moreVars>>
exceptSsml == <<exceptText, chunkVars, dgVars, moreVars>>
exceptDg == <<exceptText, chunkVars, ssmlVars, moreVars>>
exceptMore == <<exceptText, chunkVars, ssmlVars, dgVars>>
exceptCast == <<exceptMore, sfxVars, emoVars, wavVars>>
exceptSfx == <<exceptMore, castVars, emoVars, wavVars>>
exceptEmo == <<exceptMore, castVars, sfxVars, wavVars>>
exceptWav == <<exceptMore, castVars, sfxVars, emoVars>>

----------------------------------------------------------------------------
(* Bounds *)

NumCallers == 3
MaxConcurrentBound == 2
MaxUserJobs == 1

Callers == 1..NumCallers

NoValue == <<"none">>
Busy == <<"BUSY">>
Fulfilled(c) == <<"ok", c>>
Rejected(c) == <<"err", c>>

UserJob == [kind |-> "user", who |-> 0]
ReleaseJob(c) == [kind |-> "release", who |-> c]
ResumeJob(c) == [kind |-> "resume", who |-> c]

RECURSIVE CountJobs(_, _)
CountJobs(m, kind) ==
    IF m = <<>> THEN 0
    ELSE (IF Head(m).kind = kind THEN 1 ELSE 0) + CountJobs(Tail(m), kind)

----------------------------------------------------------------------------
(* SynthesisSemaphore *)

\* get active()
active == running

\* get waiting()
waiting == Len(queue)

SemInit ==
    /\ maxConcurrent \in 1..MaxConcurrentBound
    /\ running = 0
    /\ queue = <<>>
    /\ pc = [c \in Callers |-> "idle"]
    /\ outcome = [c \in Callers |-> NoValue]
    /\ result = [c \in Callers |-> NoValue]
    /\ mq = <<>>
    /\ user = TRUE
    /\ calls = 0
    /\ released = [c \in Callers |-> 0]
    /\ wasQueued = {}

MustWait_Never == FALSE

\* The admission test of run(): if (this.running >= this.maxConcurrent)
MustWait == running >= maxConcurrent

QueueFull_Two == Len(queue) >= 2

\* if (this.queue.length >= 1)
QueueFull == Len(queue) >= 1

RejectBusy_DropsWaiter(c) ==
    /\ pc' = [pc EXCEPT ![c] = "busy"]
    /\ result' = [result EXCEPT ![c] = Busy]
    /\ queue' = <<>>
    /\ UNCHANGED <<running, outcome, mq, released, wasQueued>>

\* throw new BusyError(): the promise of run() rejects, nothing else changes.
RejectBusy(c) ==
    /\ pc' = [pc EXCEPT ![c] = "busy"]
    /\ result' = [result EXCEPT ![c] = Busy]
    /\ UNCHANGED <<running, queue, outcome, mq, released, wasQueued>>

\* await new Promise((resolve) => this.queue.push(resolve))
Enqueue(c) ==
    /\ queue' = Append(queue, c)
    /\ pc' = [pc EXCEPT ![c] = "queued"]
    /\ wasQueued' = wasQueued \cup {c}
    /\ UNCHANGED <<running, outcome, result, mq, released>>

\* this.running++ and the call of fn(), whose promise is then awaited.
\* m is the microtask queue at that moment.
Enter(c, m) ==
    /\ running' = running + 1
    /\ pc' = [pc EXCEPT ![c] = "running"]
    /\ mq' = m
    /\ UNCHANGED <<queue, outcome, result, released, wasQueued>>

Finally_NoWake(c, m) ==
    /\ running' = running - 1
    /\ released' = [released EXCEPT ![c] = @ + 1]
    /\ result' = [result EXCEPT ![c] = outcome[c]]
    /\ queue' = queue
    /\ mq' = m
    /\ pc' = [pc EXCEPT ![c] = "done"]

Finally_OnlyOnSuccess(c, m) ==
    /\ running' = IF outcome[c] = Fulfilled(c) THEN running - 1 ELSE running
    /\ released' = [released EXCEPT ![c] = IF outcome[c] = Fulfilled(c) THEN @ + 1 ELSE @]
    /\ result' = [result EXCEPT ![c] = outcome[c]]
    /\ IF queue = <<>> \/ outcome[c] # Fulfilled(c)
       THEN /\ queue' = queue
            /\ mq' = m
            /\ pc' = [pc EXCEPT ![c] = "done"]
       ELSE /\ queue' = Tail(queue)
            /\ mq' = Append(m, ResumeJob(Head(queue)))
            /\ pc' = [pc EXCEPT ![c] = "done", ![Head(queue)] = "woken"]

\* The finally block of run(): this.running--, this.queue.shift(), next();
\* then the promise of run() settles the way fn did.  m is the microtask
\* queue at that moment; next() appends the waiter's continuation to it.
Finally(c, m) ==
    /\ running' = running - 1
    /\ released' = [released EXCEPT ![c] = @ + 1]
    /\ result' = [result EXCEPT ![c] = outcome[c]]
    /\ IF queue = <<>>
       THEN /\ queue' = queue
            /\ mq' = m
            /\ pc' = [pc EXCEPT ![c] = "done"]
       ELSE /\ queue' = Tail(queue)
            /\ mq' = Append(m, ResumeJob(Head(queue)))
            /\ pc' = [pc EXCEPT ![c] = "done", ![Head(queue)] = "woken"]

\* run(fn) up to its first await.  Callers are numbered in the order of
\* their calls.
Run(c) ==
    /\ user
    /\ pc[c] = "idle"
    /\ c = calls + 1
    /\ calls' = c
    /\ IF MustWait
       THEN IF QueueFull THEN RejectBusy(c) ELSE Enqueue(c)
       ELSE Enter(c, mq)
    /\ UNCHANGED <<maxConcurrent, user>>

\* The promise returned by fn settles (fn is code of the caller); the rest
\* of run() becomes a microtask.
Settle(c, ok) ==
    /\ user
    /\ pc[c] = "running"
    /\ outcome' = [outcome EXCEPT ![c] = IF ok THEN Fulfilled(c) ELSE Rejected(c)]
    /\ pc' = [pc EXCEPT ![c] = "settled"]
    /\ mq' = Append(mq, ReleaseJob(c))
    /\ UNCHANGED <<maxConcurrent, running, queue, result, user, calls,
                   released, wasQueued>>

\* The rest of run() after "await fn()".
Release(c) ==
    /\ Finally(c, Tail(mq))
    /\ UNCHANGED <<maxConcurrent, outcome, user, calls, wasQueued>>

\* The rest of run() after "await new Promise(...)" of a queued caller:
\* the body of fn is code of the caller and runs on the stack.
Resume(c) ==
    /\ Enter(c, Tail(mq))
    /\ user' = TRUE
    /\ UNCHANGED <<maxConcurrent, calls>>

\* Caller code schedules a microtask of its own.
QueueUser ==
    /\ user
    /\ CountJobs(mq, "user") < MaxUserJobs
    /\ mq' = Append(mq, UserJob)
    /\ UNCHANGED <<maxConcurrent, running, queue, pc, outcome, result, user,
                   calls, released, wasQueued>>

\* Caller code returns to the event loop.
Yield ==
    /\ user
    /\ user' = FALSE
    /\ UNCHANGED <<maxConcurrent, running, queue, pc, outcome, result, mq,
                   calls, released, wasQueued>>

\* The event loop starts a timer or I/O callback once no microtask is left.
Macrotask ==
    /\ ~user
    /\ mq = <<>>
    /\ user' = TRUE
    /\ UNCHANGED <<maxConcurrent, running, queue, pc, outcome, result, mq,
                   calls, released, wasQueued>>

\* The event loop runs the microtask at the head of the queue.
Microtask ==
    /\ ~user
    /\ mq # <<>>
    /\ \/ /\ Head(mq).kind = "user"
          /\ mq' = Tail(mq)
          /\ user' = TRUE
          /\ UNCHANGED <<maxConcurrent, running, queue, pc, outcome, result,
                         calls, released, wasQueued>>
       \/ /\ Head(mq).kind = "release"
          /\ Release(Head(mq).who)
       \/ /\ Head(mq).kind = "resume"
          /\ Resume(Head(mq).who)

----------------------------------------------------------------------------
(* ToolRateLimiter *)

MaxCallsBound == 2
MaxWindowBound == 2
MaxTime == 4

\* The tool names the server passes to check().
Tools == {"voice_speak", "voice_dialogue"}

NoCheck == [key |-> "", time |-> 0, ok |-> FALSE, evicted |-> 0]

RateInit ==
    /\ config \in [maxCalls : 1..MaxCallsBound, windowMs : 1..MaxWindowBound]
    /\ buckets = [k \in Tools |-> <<>>]
    /\ present = {}
    /\ now = 0
    /\ lastCheck = NoCheck
    /\ admitted = [k \in Tools |-> <<>>]

Expired_Strict(ts, cutoff) == ts < cutoff

\* timestamps[0] <= cutoff
Expired(ts, cutoff) == ts <= cutoff

\* while (timestamps.length > 0 && timestamps[0] <= cutoff) timestamps.shift()
RECURSIVE Prune(_, _)
Prune(timestamps, cutoff) ==
    IF Len(timestamps) > 0 /\ Expired(Head(timestamps), cutoff)
    THEN Prune(Tail(timestamps), cutoff)
    ELSE timestamps

AtCeiling_Off(timestamps) == Len(timestamps) > config.maxCalls

\* timestamps.length >= this.config.maxCalls
AtCeiling(timestamps) == Len(timestamps) >= config.maxCalls

\* this.buckets.get(toolName), created empty when missing.
Bucket(k) == IF k \in present THEN buckets[k] ELSE <<>>

\* The array check(toolName, t) works on after pruning.
Pruned(k, t) == Prune(Bucket(k), t - config.windowMs)

Recorded_Always(k, t) == Append(Pruned(k, t), t)

\* The bucket check(toolName, t) leaves behind: timestamps.push(now) runs
\* only when the call is admitted.
Recorded(k, t) ==
    IF AtCeiling(Pruned(k, t)) THEN Pruned(k, t) ELSE Append(Pruned(k, t), t)

\* The return value of check(toolName, t).
Allowed(k, t) == ~AtCeiling(Pruned(k, t))

\* check(toolName, now)
Check(k) ==
    /\ present' = present \cup {k}
    /\ buckets' = [buckets EXCEPT ![k] = Recorded(k, now)]
    /\ lastCheck' = [key |-> k, time |-> now, ok |-> Allowed(k, now),
                     evicted |-> Len(Bucket(k)) - Len(Pruned(k, now))]
    /\ admitted' = IF Allowed(k, now)
                   THEN [admitted EXCEPT ![k] = Append(@, now)]
                   ELSE admitted
    /\ UNCHANGED <<config, now>>

Cleared_KeepsOthers == present \ {"voice_speak"}

\* The keys clear() leaves in the map: none.
Cleared == {}

\* clear()
Clear ==
    /\ present' = Cleared
    /\ buckets' = [k \in Tools |-> IF k \in Cleared THEN buckets[k] ELSE <<>>]
    /\ admitted' = [k \in Tools |-> <<>>]
    /\ lastCheck' = NoCheck
    /\ UNCHANGED <<config, now>>

\* The admitted calls of a history that lie in the window (t - windowMs, t].
InWindow(log, t) == SelectSeq(log, LAMBDA x : x > t - config.windowMs /\ x <= t)

\* Time passes between two calls.
Tick ==
    /\ now < MaxTime
    /\ now' = now + 1
    /\ admitted' = [k \in Tools |-> InWindow(admitted[k], now + 1)]
    /\ UNCHANGED <<config, buckets, present, lastCheck>>

----------------------------------------------------------------------------
(* withTimeout *)

MaxMs == 2
MaxClock == 4

TimeoutError == <<"REQUEST_TIMEOUT">>
FnValue == <<"ok", "fn">>
FnError == <<"err", "fn">>

ToInit ==
    /\ toMs = 0
    /\ toPc = "idle"
    /\ toFn = "notcalled"
    /\ toTimer = "none"
    /\ toDue = 0
    /\ toStart = 0
    /\ toFnAt = 0
    /\ toResult = NoValue
    /\ toClock = 0

NoLimit_Strict(ms) == ms < 0

\* if (ms <= 0) return fn();
NoLimit(ms) == ms <= 0

SettleOnce_LastWins(v) == v

\* resolve(result) / reject(error) of the promise withTimeout returns: only
\* the first settlement counts.
SettleOnce(v) == IF toResult = NoValue THEN v ELSE toResult

\* withTimeout(fn, ms) up to the point where it returns its promise:
\* with a limit, setTimeout arms the timer and fn() is called.
CallWithTimeout(ms) ==
    /\ toPc = "idle"
    /\ toPc' = "called"
    /\ toMs' = ms
    /\ toFn' = "pending"
    /\ toStart' = toClock
    /\ IF NoLimit(ms)
       THEN UNCHANGED <<toTimer, toDue>>
       ELSE toTimer' = "armed" /\ toDue' = toClock + ms
    /\ UNCHANGED <<toFnAt, toResult, toClock>>

FnSettles_KeepsTimer(ok) ==
    /\ toPc = "called"
    /\ toFn = "pending"
    /\ toFn' = IF ok THEN "fulfilled" ELSE "rejected"
    /\ toResult' = SettleOnce(IF ok THEN FnValue ELSE FnError)
    /\ toFnAt' = toClock
    /\ UNCHANGED <<toMs, toPc, toTimer, toDue, toStart, toClock>>

\* The promise of fn settles and its reaction runs (before any timer: timers
\* are macrotasks).  Without a limit the promise of withTimeout takes the
\* outcome of fn; with one, the then-callbacks clear the timer and settle.
FnSettles(ok) ==
    /\ toPc = "called"
    /\ toFn = "pending"
    /\ toFn' = IF ok THEN "fulfilled" ELSE "rejected"
    /\ toResult' = SettleOnce(IF ok THEN FnValue ELSE FnError)
    /\ toTimer' = IF toTimer = "armed" THEN "cleared" ELSE toTimer
    /\ toFnAt' = toClock
    /\ UNCHANGED <<toMs, toPc, toDue, toStart, toClock>>

\* The setTimeout callback: reject(new TimeoutError(ms)).
TimerFires ==
    /\ toTimer = "armed"
    /\ toClock >= toDue
    /\ toTimer' = "fired"
    /\ toResult' = SettleOnce(TimeoutError)
    /\ UNCHANGED <<toMs, toPc, toFn, toDue, toStart, toFnAt, toClock>>

\* A millisecond passes; a timer that is due runs first.
ToTick ==
    /\ toClock < MaxClock
    /\ ~(toTimer = "armed" /\ toClock >= toDue)
    /\ toClock' = toClock + 1
    /\ UNCHANGED <<toMs, toPc, toFn, toTimer, toDue, toStart, toFnAt,
                   toResult>>

----------------------------------------------------------------------------
(* runPlan and runEmotionPlan *)

MaxSpans == 2
MaxChunks == 2
MaxTotalChunks == 4
MaxUpstream == 2

\* The values of durationMs that synthesize and the WAV concatenation report.
Durations == {1, 2}

\* A warning: its code, the span whose chunking produced it (0 otherwise),
\* the unit its message counts in and the number its message names.
Warning(code, span, unit, n) ==
    [code |-> code, span |-> span, unit |-> unit, n |-> n]

\* ...plan.warnings / ...parseResult.warnings
Upstream ==
    [j \in 1..oUpstream |-> Warning("UPSTREAM", 0, "", j)]

\* chunkResult.warnings of span sp: TRUNCATED when the text was cut,
\* then CHUNKED_TEXT when more than one chunk came out.
ChunkWarnings(sp) ==
    (IF oSpans[sp + 1].truncated
     THEN <<Warning("TRUNCATED", sp, "", 0)>> ELSE <<>>)
    \o (IF oSpans[sp + 1].chunks > 1
        THEN <<Warning("CHUNKED_TEXT", sp, "chunks", oSpans[sp + 1].chunks)>>
        ELSE <<>>)

Interrupted(unit, n) == Warning("SYNTHESIS_INTERRUPTED", 0, unit, n)

ConcatFailed == Warning("CONCAT_FAILED", 0, "", 0)

NoResult ==
    [chunks |-> <<>>, concatPath |-> FALSE, concatBase64 |-> FALSE,
     totalDurationMs |-> 0, chunkCount |-> 0, interrupted |-> FALSE,
     warnings |-> <<>>]

RECURSIVE SumDurations(_)
\* artifacts.reduce((sum, a) => sum + a.durationMs, 0)
SumDurations(arts) ==
    IF arts = <<>> THEN 0
    ELSE Head(arts).durationMs + SumDurations(Tail(arts))

RECURSIVE TotalChunks(_)
\* The number of chunks that chunkText yields over all the texts.
TotalChunks(spans) ==
    IF spans = <<>> THEN 0 ELSE Head(spans).chunks + TotalChunks(Tail(spans))

\* The inputs: runPlan has one text, empty (no entry), blank (no chunk) or
\* not; every emotion span has a text that is not blank, hence a chunk.
OrchInputs(runner, spans) ==
    /\ Len(spans) <= MaxSpans
    /\ TotalChunks(spans) <= MaxTotalChunks
    /\ \A k \in 1..Len(spans) :
          /\ spans[k].chunks <= MaxChunks
          /\ spans[k].chunks = 0 => ~spans[k].truncated
    /\ IF runner = "runPlan"
       THEN Len(spans) <= 1
       ELSE \A k \in 1..Len(spans) : spans[k].chunks >= 1

OrchInit ==
    /\ oRunner \in {"runPlan", "runEmotionPlan"}
    /\ oUpstream \in 0..MaxUpstream
    /\ oSpans \in UNION {[1..n -> [chunks : 0..MaxChunks,
                                   truncated : BOOLEAN]] : n \in 0..MaxSpans}
    /\ OrchInputs(oRunner, oSpans)
    /\ oOpts \in [concat : BOOLEAN, artifactMode : {"path", "base64"},
                  outputDir : BOOLEAN]
    /\ oAborted = FALSE
    /\ oPc = "idle"
    /\ oSpan = 0
    /\ oI = 0
    /\ oGlobal = 0
    /\ oArtifacts = <<>>
    /\ oInterrupted = FALSE
    /\ oWarnings = <<>>
    /\ oCalls = <<>>
    /\ oResult = NoResult
    /\ oThrown = <<>>

\* The point at which the loops stop or reach the next synthesize call.
At(where, sp, i, interrupted, w) ==
    [pc |-> where, span |-> sp, i |-> i, interrupted |-> interrupted,
     warnings |-> w]

LoopDone_Late(i, n) == i > n

\* The loop condition i < chunkResult.chunks.length is false.
LoopDone(i, n) == i >= n

\* runPlan: for (let i = 0; i < chunkResult.chunks.length; i++), from the
\* loop condition to the next synthesize call or to the end of the loop.
PlanLoop(i, w) ==
    IF LoopDone(i, oSpans[1].chunks)
    THEN At("end", 0, i, FALSE, w)
    ELSE IF oAborted
    THEN At("end", 0, i, TRUE, Append(w, Interrupted("chunks", i)))
    ELSE At("synth", 0, i, FALSE, w)

RECURSIVE ChunkLoop(_, _, _, _)
RECURSIVE SpanLoop(_, _, _)

\* runEmotionPlan: the inner loop over the chunks of span sp, from its
\* condition; g is globalChunkIndex.
ChunkLoop(sp, i, w, g) ==
    IF LoopDone(i, oSpans[sp + 1].chunks)
    THEN SpanLoop(sp + 1, w, g)
    ELSE IF oAborted
    THEN At("end", sp, i, TRUE, Append(w, Interrupted("chunks", g)))
    ELSE At("synth", sp, i, FALSE, w)

\* runEmotionPlan: the outer loop over the spans, from its condition.
SpanLoop(sp, w, g) ==
    IF LoopDone(sp, Len(oSpans))
    THEN At("end", sp, 0, FALSE, w)
    ELSE IF oAborted
    THEN At("end", sp, 0, TRUE, Append(w, Interrupted("spans", sp)))
    ELSE ChunkLoop(sp, 0, w \o ChunkWarnings(sp), g)

LoopFrom(sp, i, w, g) ==
    IF oRunner = "runPlan" THEN PlanLoop(i, w) ELSE ChunkLoop(sp, i, w, g)

SynthIndex_InSpan(i, g) == i

\* The chunkIndex argument of synthesize: i in runPlan, globalChunkIndex in
\* runEmotionPlan.
SynthIndex(i, g) == IF oRunner = "runPlan" THEN i ELSE g

ShouldConcat_Always(arts, interrupted) == oOpts.concat

\* options.concat && artifacts.length > 1 && !interrupted
ShouldConcat(arts, interrupted) ==
    oOpts.concat /\ Len(arts) > 1 /\ ~interrupted

\* The branch taken inside the try block.
ConcatFn ==
    IF oOpts.artifactMode = "base64" THEN "concatWavBase64"
    ELSE IF oOpts.outputDir THEN "concatWavFiles"
    ELSE "none"

EmptyResult_NoWarnings(w) == NoResult

\* The result returned when there is nothing to synthesize.
EmptyResult(w) == [NoResult EXCEPT !.warnings = w]

\* The result of the last return statement.
PlainResult(arts, interrupted, w) ==
    [chunks |-> arts, concatPath |-> FALSE, concatBase64 |-> FALSE,
     totalDurationMs |-> SumDurations(arts), chunkCount |-> Len(arts),
     interrupted |-> interrupted, warnings |-> w]

\* The result of the return statements inside the try block.
ConcatResult(arts, interrupted, w, d) ==
    [chunks |-> arts,
     concatPath |-> (ConcatFn = "concatWavFiles"),
     concatBase64 |-> (ConcatFn = "concatWavBase64"),
     totalDurationMs |-> d, chunkCount |-> Len(arts),
     interrupted |-> interrupted, warnings |-> w]

\* The code run without interruption from a point of the loops: up to the
\* next await (of synthesize or of the concatenation) or to a return.
Proceed(at, arts, g) ==
    /\ oArtifacts' = arts
    /\ oGlobal' = g
    /\ oSpan' = at.span
    /\ oI' = at.i
    /\ oInterrupted' = at.interrupted
    /\ oWarnings' = at.warnings
    /\ IF at.pc = "synth"
       THEN /\ oPc' = "synth"
            /\ oCalls' = Append(oCalls, [span |-> at.span, i |-> at.i,
                                         index |-> SynthIndex(at.i, g)])
            /\ oResult' = NoResult
       ELSE IF ShouldConcat(arts, at.interrupted) /\ ConcatFn # "none"
       THEN /\ oPc' = "concat"
            /\ UNCHANGED <<oCalls, oResult>>
       ELSE /\ oPc' = "returned"
            /\ oResult' = PlainResult(arts, at.interrupted, at.warnings)
            /\ UNCHANGED oCalls

\* An early return with nothing synthesized.
ReturnEmpty(w) ==
    /\ oPc' = "returned"
    /\ oWarnings' = w
    /\ oResult' = EmptyResult(w)
    /\ UNCHANGED <<oSpan, oI, oGlobal, oArtifacts, oInterrupted, oCalls>>

\* The call of runPlan or runEmotionPlan, up to its first await or return.
RunCall ==
    /\ oPc = "idle"
    /\ IF oRunner = "runPlan"
       THEN IF oSpans = <<>>
            THEN ReturnEmpty(Upstream)
            ELSE IF oSpans[1].chunks = 0
            THEN ReturnEmpty(Upstream \o ChunkWarnings(0))
            ELSE Proceed(PlanLoop(0, Upstream \o ChunkWarnings(0)), <<>>, 0)
       ELSE IF Len(oSpans) = 0
            THEN ReturnEmpty(Upstream)
            ELSE Proceed(SpanLoop(0, Upstream, 0), <<>>, 0)
    /\ UNCHANGED <<oRunner, oUpstream, oSpans, oOpts, oAborted, oThrown>>

\* The promise of synthesize fulfils with an artifact: artifacts.push,
\* globalChunkIndex++ and the loops go on.
SynthFulfils(d) ==
    /\ oPc = "synth"
    /\ Proceed(LoopFrom(oSpan, oI + 1, oWarnings, oGlobal + 1),
               Append(oArtifacts,
                      [span |-> oSpan, i |-> oI,
                       index |-> oCalls[Len(oCalls)].index,
                       durationMs |-> d]),
               oGlobal + 1)
    /\ UNCHANGED <<oRunner, oUpstream, oSpans, oOpts, oAborted, oThrown>>

SynthRejects_Retries ==
    /\ oPc = "synth"
    /\ Len(oCalls) < MaxTotalChunks + 1
    /\ oCalls' = Append(oCalls, oCalls[Len(oCalls)])
    /\ UNCHANGED <<oRunner, oUpstream, oSpans, oOpts, oAborted, oPc, oSpan,
                   oI, oGlobal, oArtifacts, oInterrupted, oWarnings, oResult,
                   oThrown>>

\* The promise of synthesize rejects: the await throws out of the function.
SynthRejects ==
    /\ oPc = "synth"
    /\ oPc' = "threw"
    /\ oThrown' = Rejected(Len(oCalls))
    /\ UNCHANGED <<oRunner, oUpstream, oSpans, oOpts, oAborted, oSpan, oI,
                   oGlobal, oArtifacts, oInterrupted, oWarnings, oCalls,
                   oResult>>

\* concatWavBase64 / concatWavFiles fulfils with a duration.
ConcatFulfils(d) ==
    /\ oPc = "concat"
    /\ oPc' = "returned"
    /\ oResult' = ConcatResult(oArtifacts, oInterrupted, oWarnings, d)
    /\ UNCHANGED <<oRunner, oUpstream, oSpans, oOpts, oAborted, oSpan, oI,
                   oGlobal, oArtifacts, oInterrupted, oWarnings, oCalls,
                   oThrown>>

ConcatThrows_Rethrows ==
    /\ oPc = "concat"
    /\ oPc' = "threw"
    /\ UNCHANGED <<oRunner, oUpstream, oSpans, oOpts, oAborted, oSpan, oI,
                   oGlobal, oArtifacts, oInterrupted, oWarnings, oCalls,
                   oResult, oThrown>>

\* concatWavBase64 / concatWavFiles throws: the catch block pushes
\* CONCAT_FAILED and the last return statement runs.
ConcatThrows ==
    /\ oPc = "concat"
    /\ oPc' = "returned"
    /\ oWarnings' = Append(oWarnings, ConcatFailed)
    /\ oResult' = PlainResult(oArtifacts, oInterrupted,
                              Append(oWarnings, ConcatFailed))
    /\ UNCHANGED <<oRunner, oUpstream, oSpans, oOpts, oAborted, oSpan, oI,
                   oGlobal, oArtifacts, oInterrupted, oCalls, oThrown>>

\* controller.abort() on the signal given in the options.
Abort ==
    /\ ~oAborted
    /\ oPc \in {"idle", "synth", "concat"}
    /\ oAborted' = TRUE
    /\ UNCHANGED <<oRunner, oUpstream, oSpans, oOpts, oPc, oSpan, oI,
                   oGlobal, oArtifacts, oInterrupted, oWarnings, oCalls,
                   oResult, oThrown>>

----------------------------------------------------------------------------
(* createServer: the handlers of voice_speak and voice_dialogue *)

NumRequests == 4

\* SHIP_LIMITS.maxConcurrentSynth, the default of the option maxConcurrent.
maxConcurrentSynth == 1

Requests == 1..NumRequests

RateLimited == <<"RATE_LIMITED">>
InternalError == <<"INTERNAL_ERROR">>

SrvInit ==
    /\ requestTimeoutMs \in 0..MaxMs
    /\ sReqs = 0
    /\ sTool = [r \in Requests |-> ""]
    /\ sCaller = [r \in Requests |-> 0]
    /\ sTimer = [r \in Requests |-> "none"]
    /\ sDue = [r \in Requests |-> 0]
    /\ sSeen = [r \in Requests |-> FALSE]
    /\ sResp = [r \in Requests |-> NoValue]
    /\ sResponses = [r \in Requests |-> 0]

\* safeErrorResponse(error): the code of a guardrail error, INTERNAL_ERROR
\* for any other error.
SafeErrorResponse(error) ==
    IF error \in {Busy, RateLimited, TimeoutError} THEN error
    ELSE InternalError

\* What the tool callback returns for the outcome of withTimeout: the
\* result of the handler, or the response of the catch block.
ToolResponse(v) == IF v[1] = "ok" THEN v ELSE SafeErrorResponse(v)

\* The tool callback returns a response for request r.
Respond(r, v) ==
    /\ sResp' = [sResp EXCEPT ![r] = v]
    /\ sResponses' = [sResponses EXCEPT ![r] = @ + 1]

ArmedTimer_Never(r, ms) == sTimer

\* withTimeout: setTimeout(..., ms) unless ms <= 0.
ArmedTimer(r, ms) ==
    IF NoLimit(ms) THEN sTimer ELSE [sTimer EXCEPT ![r] = "armed"]

\* The promise of semaphore.run of request r has settled and the
\* then-callbacks of withTimeout have not run yet.
Undelivered(r) ==
    /\ sCaller[r] # 0
    /\ ~sSeen[r]
    /\ result[sCaller[r]] # NoValue

\* No then-callback of withTimeout is waiting to run: they are microtasks
\* queued when the promise of semaphore.run settles and run before anything
\* else happens.
Quiet == \A r \in Requests : ~Undelivered(r)

\* A timer of withTimeout is due.
TimerDue == \E r \in Requests : sTimer[r] = "armed" /\ now >= sDue[r]

ToolCall_BusyUncounted(r, k) ==
    /\ user
    /\ Quiet
    /\ r = sReqs + 1
    /\ now + requestTimeoutMs <= MaxTime
    /\ sReqs' = r
    /\ sTool' = [sTool EXCEPT ![r] = k]
    /\ IF Allowed(k, now) /\ MustWait /\ QueueFull
       THEN UNCHANGED rateVars
       ELSE Check(k)
    /\ IF Allowed(k, now)
       THEN /\ calls < NumCallers
            /\ Run(calls + 1)
            /\ sCaller' = [sCaller EXCEPT ![r] = calls + 1]
            /\ sTimer' = ArmedTimer(r, requestTimeoutMs)
            /\ sDue' = [sDue EXCEPT ![r] = now + requestTimeoutMs]
            /\ UNCHANGED <<sSeen, sResp, sResponses>>
       ELSE /\ Respond(r, SafeErrorResponse(RateLimited))
            /\ UNCHANGED <<semVars, sCaller, sTimer, sDue, sSeen>>
    /\ UNCHANGED requestTimeoutMs

\* A call of tool k arrives, the r-th request: rateLimiter.check, then
\* withTimeout(() => semaphore.run(() => handle...(...)), requestTimeoutMs)
\* up to its first await.  The model takes the call only if its timer falls
\* within the time modelled.
ToolCall(r, k) ==
    /\ user
    /\ Quiet
    /\ r = sReqs + 1
    /\ now + requestTimeoutMs <= MaxTime
    /\ sReqs' = r
    /\ sTool' = [sTool EXCEPT ![r] = k]
    /\ Check(k)
    /\ IF Allowed(k, now)
       THEN /\ calls < NumCallers
            /\ Run(calls + 1)
            /\ sCaller' = [sCaller EXCEPT ![r] = calls + 1]
            /\ sTimer' = ArmedTimer(r, requestTimeoutMs)
            /\ sDue' = [sDue EXCEPT ![r] = now + requestTimeoutMs]
            /\ UNCHANGED <<sSeen, sResp, sResponses>>
       ELSE /\ Respond(r, SafeErrorResponse(RateLimited))
            /\ UNCHANGED <<semVars, sCaller, sTimer, sDue, sSeen>>
    /\ UNCHANGED requestTimeoutMs

Deliver_LastWins(r) ==
    /\ Undelivered(r)
    /\ sSeen' = [sSeen EXCEPT ![r] = TRUE]
    /\ sTimer' = [sTimer EXCEPT ![r] = IF @ = "armed" THEN "cleared" ELSE @]
    /\ sResp' = [sResp EXCEPT ![r] = ToolResponse(result[sCaller[r]])]
    /\ sResponses' = [sResponses EXCEPT ![r] = IF sResp[r] = NoValue THEN 1 ELSE @]
    /\ UNCHANGED <<requestTimeoutMs, sReqs, sTool, sCaller, sDue>>

\* The then-callbacks of withTimeout for request r: clearTimeout, then
\* resolve or reject, which the tool callback turns into its response
\* unless the promise has been rejected by the timer.
Deliver(r) ==
    /\ Undelivered(r)
    /\ sSeen' = [sSeen EXCEPT ![r] = TRUE]
    /\ sTimer' = [sTimer EXCEPT ![r] = IF @ = "armed" THEN "cleared" ELSE @]
    /\ IF sResp[r] = NoValue
       THEN Respond(r, ToolResponse(result[sCaller[r]]))
       ELSE UNCHANGED <<sResp, sResponses>>
    /\ UNCHANGED <<requestTimeoutMs, sReqs, sTool, sCaller, sDue>>

\* The timer of request r fires (a macrotask, run when no microtask is
\* left): reject(new TimeoutError(ms)), which the catch block of the tool
\* callback turns into the response.
Expire(r) ==
    /\ ~user
    /\ mq = <<>>
    /\ Quiet
    /\ sTimer[r] = "armed"
    /\ now >= sDue[r]
    /\ sTimer' = [sTimer EXCEPT ![r] = "fired"]
    /\ IF sResp[r] = NoValue
       THEN Respond(r, SafeErrorResponse(TimeoutError))
       ELSE UNCHANGED <<sResp, sResponses>>
    /\ UNCHANGED <<requestTimeoutMs, sReqs, sTool, sCaller, sDue, sSeen>>

\* A millisecond passes; a timer that is due fires first.  Time is counted
\* from the first request.
Elapse ==
    /\ sReqs > 0
    /\ Quiet
    /\ ~TimerDue
    /\ Tick

----------------------------------------------------------------------------
(* chunkText (packages/core/src/chunking): a text is a sequence of         *)
(* characters, an index of the code (from 0) is one less than the index    *)
(* of the model                                                            *)

MaxTextLen == 5
MaxChunkCharsBound == 5

\* The characters the splitters tell apart: a letter, the two kinds of
\* white space, a sentence end and a clause end.
Chars == {"a", " ", "\n", ".", ","}
WhiteSpace == {" ", "\n"}
SentenceEnds == {".", "!", "?"}
ClauseEnds == {",", ";", ":", "u2014"}

\* The texts of n characters
TextsOfLen(n) == [1..n -> Chars]

CHUNK_LIMITS ==
    [maxChunkChars |-> 600, minChunkChars |-> 20, maxTotalChars |-> 12000,
     maxChunks |-> 50]

\* The options of a call: none (every limit is the default) or small
\* limits of the size of the texts.
ChunkingOptions ==
    {CHUNK_LIMITS} \cup
    [maxChunkChars : 1..MaxChunkCharsBound,
     minChunkChars : {0, 2},
     maxTotalChars : {MaxTextLen - 1, CHUNK_LIMITS.maxTotalChars},
     maxChunks : 1..MaxChunks]

Max(S) == CHOOSE x \in S : \A y \in S : y <= x
Min(S) == CHOOSE x \in S : \A y \in S : x <= y

\* String.prototype.trim
Trim(s) ==
    LET inked == {i \in 1..Len(s) : s[i] \notin WhiteSpace}
    IN  IF inked = {} THEN <<>> ELSE SubSeq(s, Min(inked), Max(inked))

\* s.slice(from, to) for 0 <= from and 0 <= to
Slice(s, from, to) == SubSeq(s, from + 1, Min({to, Len(s)}))

\* s.lastIndexOf(c, from) for one character c; -1 when there is none
LastIndexOf(s, c, from) ==
    Max({-1} \cup {k \in 0..Min({from, Len(s) - 1}) : s[k + 1] = c})

\* s.lastIndexOf(c + d) for two characters
LastIndexOf2(s, c, d) ==
    Max({-1} \cup {k \in 0..(Len(s) - 2) : s[k + 1] = c /\ s[k + 2] = d})

\* The end of the white space that starts at i
RECURSIVE SpaceEnd(_, _)
SpaceEnd(s, i) ==
    IF i < Len(s) /\ s[i + 1] \in WhiteSpace THEN SpaceEnd(s, i + 1) ELSE i

\* The last character of the match of a splitter's pattern that starts at
\* i, 0 when there is none:
\*   /\n\s*\n/             a newline, white space, a newline (the longest)
\*   /(?<=[.!?])\s+/       white space that follows a sentence end
\*   /(?<=[,;:\u2014])\s+/   white space that follows a clause end
Match(pattern, s, i) ==
    CASE pattern = "paragraph" ->
            IF s[i] = "\n"
            THEN Max({0} \cup {j \in (i + 1)..SpaceEnd(s, i) : s[j] = "\n"})
            ELSE 0
      [] pattern = "sentence" ->
            IF i > 1 /\ s[i] \in WhiteSpace /\ s[i - 1] \in SentenceEnds
            THEN SpaceEnd(s, i) ELSE 0
      [] pattern = "clause" ->
            IF i > 1 /\ s[i] \in WhiteSpace /\ s[i - 1] \in ClauseEnds
            THEN SpaceEnd(s, i) ELSE 0

\* s.split(pattern): the piece that starts at start, scanned up to i
RECURSIVE SplitFrom(_, _, _, _)
SplitFrom(pattern, s, start, i) ==
    IF i > Len(s) THEN <<SubSeq(s, start, Len(s))>>
    ELSE LET e == Match(pattern, s, i)
         IN  IF e > 0
             THEN <<SubSeq(s, start, i - 1)>>
                  \o SplitFrom(pattern, s, e + 1, e + 1)
             ELSE SplitFrom(pattern, s, start, i + 1)

\* .map((s) => s.trim()).filter(Boolean)
TrimAndFilter(pieces) ==
    SelectSeq([k \in 1..Len(pieces) |-> Trim(pieces[k])],
              LAMBDA piece : piece # <<>>)

splitByParagraphs(text) == TrimAndFilter(SplitFrom("paragraph", text, 1, 1))
splitBySentences(text) == TrimAndFilter(SplitFrom("sentence", text, 1, 1))
splitByPunctuation(text) == TrimAndFilter(SplitFrom("clause", text, 1, 1))

\* The index at which hardSplit cuts
SplitIdx(remaining, limit) ==
    LET splitIdx == LastIndexOf(remaining, " ", limit)
    IN  IF splitIdx <= 0 THEN limit ELSE splitIdx

RECURSIVE hardSplit(_, _)
hardSplit(text, limit) ==
    IF Len(text) > limit
    THEN LET splitIdx == SplitIdx(text, limit)
         IN  <<Trim(Slice(text, 0, splitIdx))>>
             \o hardSplit(Trim(Slice(text, splitIdx, Len(text))), limit)
    ELSE IF text # <<>> THEN <<text>> ELSE <<>>

Splitter(splitter, chunk, maxChunkChars) ==
    CASE splitter = "splitBySentences" -> splitBySentences(chunk)
      [] splitter = "splitByPunctuation" -> splitByPunctuation(chunk)
      [] splitter = "hardSplit" -> hardSplit(chunk, maxChunkChars)

RECURSIVE refineSplits(_, _, _)
refineSplits(chunks, maxChunkChars, splitter) ==
    IF chunks = <<>> THEN <<>>
    ELSE (IF Len(Head(chunks)) <= maxChunkChars
          THEN <<Head(chunks)>>
          ELSE Splitter(splitter, Head(chunks), maxChunkChars))
         \o refineSplits(Tail(chunks), maxChunkChars, splitter)

Merges_AnySize(prev, current, minChars, maxChars) ==
    Len(current) < minChars

\* The test of mergeTiny on the chunk current and its predecessor
Merges(prev, current, minChars, maxChars) ==
    Len(current) < minChars /\ Len(prev) + Len(current) + 1 <= maxChars

\* The loop of mergeTiny from chunk i on, result being built
RECURSIVE MergeFrom(_, _, _, _, _)
MergeFrom(chunks, i, acc, minChars, maxChars) ==
    IF i > Len(chunks) THEN acc
    ELSE LET prev == acc[Len(acc)]
             current == chunks[i]
         IN  MergeFrom(chunks, i + 1,
                 IF Merges(prev, current, minChars, maxChars)
                 THEN [acc EXCEPT ![Len(acc)] = prev \o <<" ">> \o current]
                 ELSE Append(acc, current),
                 minChars, maxChars)

mergeTiny(chunks, minChars, maxChars) ==
    IF Len(chunks) <= 1 THEN chunks
    ELSE MergeFrom(chunks, 2, <<chunks[1]>>, minChars, maxChars)

truncateAtBoundary(text, maxChars) ==
    LET sub == Slice(text, 0, maxChars)
        sentEnd == Max({LastIndexOf2(sub, p, " ") : p \in SentenceEnds})
        wordEnd == LastIndexOf(sub, " ", Len(sub))
    IN  IF 2 * sentEnd > maxChars THEN Trim(Slice(text, 0, sentEnd + 1))
        ELSE IF 2 * wordEnd > maxChars THEN Trim(Slice(text, 0, wordEnd))
        ELSE Trim(sub)

ChunkResult(chunks, wasChunked, wasTruncated, warnings) ==
    [chunks |-> chunks, wasChunked |-> wasChunked,
     wasTruncated |-> wasTruncated, warnings |-> warnings]

\* The text after the cap on its length, and whether it was cut
Capped(text, maxTotalChars) ==
    IF Len(Trim(text)) > maxTotalChars
    THEN [input |-> truncateAtBoundary(Trim(text), maxTotalChars),
          wasTruncated |-> TRUE, warnings |-> <<"TRUNCATED">>]
    ELSE [input |-> Trim(text), wasTruncated |-> FALSE, warnings |-> <<>>]

\* The cascade of splitters down to the clauses, and down to the hard split
Clauses(input, o) ==
    refineSplits(
        refineSplits(splitByParagraphs(input), o.maxChunkChars,
                     "splitBySentences"),
        o.maxChunkChars, "splitByPunctuation")

Refined(input, o) == refineSplits(Clauses(input, o), o.maxChunkChars, "hardSplit")

\* The cascade and the merge of the tiny chunks
Cascade(input, o) ==
    mergeTiny(Refined(input, o), o.minChunkChars, o.maxChunkChars)

FitsOneChunk_Never(input, maxChunkChars) == FALSE

\* Whether the text, cut or not, fits one chunk
FitsOneChunk(input, maxChunkChars) == Len(input) <= maxChunkChars

CapChunks_Off(rawChunks, maxChunks) == rawChunks

\* rawChunks.slice(0, maxChunks) when there are too many chunks
CapChunks(rawChunks, maxChunks) ==
    IF Len(rawChunks) > maxChunks THEN SubSeq(rawChunks, 1, maxChunks)
    ELSE rawChunks

chunkText(text, o) ==
    IF Trim(text) = <<>>
    THEN ChunkResult(<<>>, FALSE, FALSE, <<>>)
    ELSE LET c == Capped(text, o.maxTotalChars)
         IN  IF FitsOneChunk(c.input, o.maxChunkChars)
             THEN ChunkResult(<<c.input>>, FALSE, c.wasTruncated, c.warnings)
             ELSE LET rawChunks == Cascade(c.input, o)
                      over == Len(rawChunks) > o.maxChunks
                      kept == CapChunks(rawChunks, o.maxChunks)
                  IN  ChunkResult(kept, Len(kept) > 1,
                          c.wasTruncated \/ over,
                          c.warnings
                          \o (IF over THEN <<"TRUNCATED">> ELSE <<>>)
                          \o (IF Len(kept) > 1 THEN <<"CHUNKED_TEXT">>
                              ELSE <<>>))

ChunkInit ==
    /\ \E n \in 0..MaxTextLen : chText \in TextsOfLen(n)
    /\ chOptions \in ChunkingOptions
    /\ chDone = FALSE
    /\ chResult = ChunkResult(<<>>, FALSE, FALSE, <<>>)

\* A call of chunkText
ChunkCall ==
    /\ ~chDone
    /\ chDone' = TRUE
    /\ chResult' = chunkText(chText, chOptions)
    /\ UNCHANGED <<chText, chOptions>>


----------------------------------------------------------------------------
(* parseSsmlLite (packages/core/src/ssml/parser.ts): an input is a         *)
(* sequence of characters and of well-formed tags, a tag being one         *)
(* element of the sequence; the texts hold no "<", ">" or "&"              *)

MaxAtoms == 4
MaxNodesBound == 3
MaxSsmlCharsBound == 2

\* The limits table, its two counting caps scaled to the size of the inputs
SSML_LIMITS ==
    [maxNodes |-> MaxNodesBound, maxBreakMs |-> 2000,
     maxTotalChars |-> MaxSsmlCharsBound]

\* A number of the program: an integer or NaN
Num(v) == [nan |-> FALSE, v |-> v]
NaN == [nan |-> TRUE, v |-> 0]
MathMax(a, b) == IF a.nan \/ b.nan THEN NaN ELSE IF a.v >= b.v THEN a ELSE b
MathMin(a, b) == IF a.nan \/ b.nan THEN NaN ELSE IF a.v <= b.v THEN a ELSE b

BreakTags ==
    {"<break/>", "<break time=5000ms/>", "<break time=ms/>",
     "<break strength=strong/>"}

SsmlTags ==
    BreakTags \cup
    {"<speak>", "</speak>", "<prosody rate=fast>", "<prosody>",
     "</prosody>", "<emphasis>", "</emphasis>", "<sub alias=a>", "</sub>",
     "<b>"}

SsmlAtoms == {"a", " "} \cup SsmlTags

\* The inputs of n characters and tags
InputsOfLen(n) == [1..n -> SsmlAtoms]

\* Groups 1, 2 and 4 of TAG_RE
IsClosing(tag) == tag \in {"</speak>", "</prosody>", "</emphasis>", "</sub>"}
IsSelfClosing(tag) == tag \in BreakTags
TagName(tag) ==
    CASE tag \in BreakTags -> "break"
      [] tag \in {"<speak>", "</speak>"} -> "speak"
      [] tag \in {"<prosody rate=fast>", "<prosody>", "</prosody>"}
            -> "prosody"
      [] tag \in {"<emphasis>", "</emphasis>"} -> "emphasis"
      [] tag \in {"<sub alias=a>", "</sub>"} -> "sub"
      [] OTHER -> "b"

ALLOWED_TAGS == {"speak", "break", "prosody", "emphasis", "sub", "say-as"}

\* parseAttr: the value of an attribute, <<>> when the tag has none.  The
\* value of time is its leading digits, if any, and the letters after
\* them.
parseAttr(tag, name) ==
    CASE name = "time" /\ tag = "<break time=5000ms/>"
            -> <<[digits |-> <<5000>>, unit |-> "ms"]>>
      [] name = "time" /\ tag = "<break time=ms/>"
            -> <<[digits |-> <<>>, unit |-> "ms"]>>
      [] name = "strength" /\ tag = "<break strength=strong/>"
            -> <<"strong">>
      [] name = "rate" /\ tag = "<prosody rate=fast>" -> <<"fast">>
      [] name = "alias" /\ tag = "<sub alias=a>" -> <<<<"a">>>>
      [] OTHER -> <<>>

\* parseInt(value, 10) and parseFloat(value)
ParseNumber(value) ==
    IF value.digits = <<>> THEN NaN ELSE Num(value.digits[1])

Times(a, k) == IF a.nan THEN NaN ELSE Num(a.v * k)

parseDurationMs(value) ==
    IF value.unit = "ms" THEN MathMax(Num(0), ParseNumber(value))
    ELSE IF value.unit = "s"
         THEN MathMax(Num(0), Times(ParseNumber(value), 1000))
    ELSE IF ParseNumber(value).nan THEN Num(250)
    ELSE MathMax(Num(0), ParseNumber(value))

strengthToMs(strength) ==
    CASE strength = "none" -> 0
      [] strength = "x-weak" -> 100
      [] strength = "weak" -> 200
      [] strength = "medium" -> 400
      [] strength = "strong" -> 750
      [] strength = "x-strong" -> 1000
      [] OTHER -> 250

parseBreakTime(tag) ==
    LET timeVal == parseAttr(tag, "time")
        strength == parseAttr(tag, "strength")
    IN  IF timeVal # <<>>
        THEN MathMin(parseDurationMs(timeVal[1]), Num(SSML_LIMITS.maxBreakMs))
        ELSE IF strength # <<>> THEN Num(strengthToMs(strength[1]))
        ELSE Num(250)

\* Whether parseProsodyRate returns a rate
HasRate(tag) == parseAttr(tag, "rate") # <<>>

\* The segments of a plan; an event carries its timeMs when it is a break
\* (its rate or level is left out)
TextSegment(value) ==
    [type |-> "text", value |-> value, event |-> "", timeMs |-> Num(0)]
EventSegment(event, timeMs) ==
    [type |-> "event", value |-> <<>>, event |-> event, timeMs |-> timeMs]

SpeechPlan(segments, plainText, wasSSML, warnings) ==
    [segments |-> segments, plainText |-> plainText, wasSSML |-> wasSSML,
     warnings |-> warnings]

\* .replace(/\s+/g, " ")
RECURSIVE CollapseSpaces(_)
CollapseSpaces(s) ==
    IF s = <<>> THEN <<>>
    ELSE IF Head(s) \in WhiteSpace
         THEN <<" ">> \o CollapseSpaces(SubSeq(s, SpaceEnd(s, 1) + 1, Len(s)))
         ELSE <<Head(s)>> \o CollapseSpaces(Tail(s))

\* The values joined by separator
RECURSIVE Join(_, _)
Join(values, separator) ==
    IF values = <<>> THEN <<>>
    ELSE IF Len(values) = 1 THEN values[1]
    ELSE values[1] \o separator \o Join(Tail(values), separator)

TextValues(segments) ==
    LET texts == SelectSeq(segments, LAMBDA s : s.type = "text")
    IN  [k \in 1..Len(texts) |-> texts[k].value]

extractPlainText_Joined(segments) == Join(TextValues(segments), <<" ">>)

extractPlainText(segments) ==
    Trim(CollapseSpaces(Join(TextValues(segments), <<" ">>)))

looksLikeSsml(input) ==
    \E i \in 1..Len(input) :
        /\ input[i] \in SsmlTags
        /\ ~IsClosing(input[i])
        /\ TagName(input[i]) \in ALLOWED_TAGS

stripAllTags(input) ==
    Trim(CollapseSpaces(SelectSeq(input, LAMBDA x : x \notin SsmlTags)))

plainTextPlan(text) ==
    IF text = <<>> THEN SpeechPlan(<<>>, <<>>, FALSE, <<>>)
    ELSE SpeechPlan(<<TextSegment(text)>>, text, FALSE, <<>>)

plainTextFallback_KeepsTags(input) ==
    SpeechPlan(<<TextSegment(input)>>, input, TRUE, <<"SSML_PARSE_FAILED">>)

plainTextFallback(input) ==
    LET stripped == stripAllTags(input)
    IN  SpeechPlan(IF stripped # <<>> THEN <<TextSegment(stripped)>>
                   ELSE <<>>,
                   stripped, TRUE, <<"SSML_PARSE_FAILED">>)

\* The ParseState before the scan; threw tells that an SsmlParseError was
\* thrown
ParseState0 ==
    [segments |-> <<>>, warnings |-> <<>>, nodeCount |-> 0, totalChars |-> 0,
     openStack |-> <<>>, threw |-> FALSE]

pushEvent(state, event, timeMs) ==
    [state EXCEPT !.segments = Append(@, EventSegment(event, timeMs))]

addText(state, text) ==
    IF Trim(text) = <<>> THEN state
    ELSE IF state.totalChars + Len(text) > SSML_LIMITS.maxTotalChars
    THEN [state EXCEPT !.totalChars = @ + Len(text), !.threw = TRUE]
    ELSE LET n == Len(state.segments)
         IN  [state EXCEPT
                !.totalChars = @ + Len(text),
                !.segments =
                    IF n > 0 /\ state.segments[n].type = "text"
                    THEN [@ EXCEPT ![n] =
                            TextSegment(state.segments[n].value \o text)]
                    ELSE Append(@, TextSegment(text))]

\* openStack.lastIndexOf(name), 0 when there is none (from 1)
StackLastIndexOf(openStack, name) ==
    Max({0} \cup {k \in 1..Len(openStack) : openStack[k] = name})

\* openStack.splice(idx, 1)
Splice(openStack, idx) ==
    SubSeq(openStack, 1, idx - 1) \o SubSeq(openStack, idx + 1, Len(openStack))

handleClosingTag(state, tagName) ==
    LET idx == StackLastIndexOf(state.openStack, tagName)
    IN  IF tagName \in {"prosody", "emphasis"} /\ idx # 0
        THEN pushEvent([state EXCEPT !.openStack = Splice(@, idx)],
                       IF tagName = "prosody" THEN "prosody_end"
                       ELSE "emphasis_end", Num(0))
        ELSE state

handleSelfClosingTag(state, tag) ==
    IF TagName(tag) = "break"
    THEN pushEvent(state, "break", parseBreakTime(tag))
    ELSE state

\* findCloseTagEnd: the place after the first </sub> from fromIndex on, 0
\* when there is none
findCloseTagEnd(body, fromIndex) ==
    LET found == {k \in fromIndex..Len(body) : body[k] = "</sub>"}
    IN  IF found = {} THEN 0 ELSE Min(found) + 1

\* Whether an opening tag pushes a start event and its name on the stack
Opens(tag) ==
    \/ TagName(tag) = "prosody" /\ HasRate(tag)
    \/ TagName(tag) = "emphasis"

\* handleOpeningTag: the state after the tag at i, and the place at which
\* the scan goes on
handleOpeningTag(state, body, i) ==
    LET tag == body[i]
        alias == parseAttr(tag, "alias")
        closeEnd == findCloseTagEnd(body, i + 1)
    IN  IF Opens(tag)
        THEN [state |-> [pushEvent(state, TagName(tag), Num(0))
                            EXCEPT !.openStack = Append(@, TagName(tag))],
              next |-> i + 1]
        ELSE IF TagName(tag) = "sub" /\ alias # <<>> /\ closeEnd # 0
        THEN [state |-> addText(state, alias[1]), next |-> closeEnd]
        ELSE [state |-> state, next |-> i + 1]

\* The end of the text that starts at i
RECURSIVE TextEnd(_, _)
TextEnd(body, i) ==
    IF i < Len(body) /\ body[i + 1] \notin SsmlTags THEN TextEnd(body, i + 1)
    ELSE i

\* The state after the tag at i, which is counted
TagStep(state, body, i) ==
    LET tag == body[i]
        counted == [state EXCEPT !.nodeCount = @ + 1]
    IN  IF counted.nodeCount > SSML_LIMITS.maxNodes
        THEN [state |-> [counted EXCEPT !.threw = TRUE], next |-> i + 1]
        ELSE IF TagName(tag) \notin ALLOWED_TAGS
        THEN [state |-> [counted EXCEPT
                           !.warnings = Append(@, "SSML_TAG_STRIPPED")],
              next |-> i + 1]
        ELSE IF TagName(tag) = "speak"
        THEN [state |-> counted, next |-> i + 1]
        ELSE IF IsClosing(tag)
        THEN [state |-> handleClosingTag(counted, TagName(tag)),
              next |-> i + 1]
        ELSE IF IsSelfClosing(tag)
        THEN [state |-> handleSelfClosingTag(counted, tag), next |-> i + 1]
        ELSE handleOpeningTag(counted, body, i)

\* The loop of doParse from place i on: the text before the next tag,
\* then the tag
RECURSIVE Scan(_, _, _)
Scan(state, body, i) ==
    IF state.threw \/ i > Len(body) THEN state
    ELSE IF body[i] \notin SsmlTags
    THEN Scan(addText(state, SubSeq(body, i, TextEnd(body, i))), body,
              TextEnd(body, i) + 1)
    ELSE LET step == TagStep(state, body, i)
         IN  Scan(step.state, body, step.next)

AutoClose_NoEvents(state) ==
    [state EXCEPT !.openStack = <<>>,
                  !.warnings = @ \o [k \in 1..Len(state.openStack)
                                        |-> "SSML_UNCLOSED_TAG"]]

\* The unclosed tags are closed, the last opened first
RECURSIVE AutoClose(_)
AutoClose(state) ==
    IF state.openStack = <<>> THEN state
    ELSE LET n == Len(state.openStack)
             unclosed == state.openStack[n]
         IN  AutoClose(
                [pushEvent(state,
                           IF unclosed = "prosody" THEN "prosody_end"
                           ELSE "emphasis_end", Num(0))
                    EXCEPT !.openStack = SubSeq(@, 1, n - 1),
                           !.warnings = Append(@, "SSML_UNCLOSED_TAG")])

\* The input without its speak wrapper
Body(input) ==
    IF /\ Len(input) >= 2
       /\ input[1] = "<speak>"
       /\ input[Len(input)] = "</speak>"
    THEN SubSeq(input, 2, Len(input) - 1)
    ELSE input

\* The state of doParse when its loop ends or throws
Scanned(input) == Scan(ParseState0, Body(input), 1)

Caught_Never(threw) == FALSE

\* The try of parseSsmlLite catches whatever doParse throws
Caught(threw) == threw

\* parseSsmlLite: the plan returned, and whether an error is thrown instead
parseSsmlLite(input) ==
    LET trimmed == Trim(input)
        scanned == Scanned(trimmed)
        closed == AutoClose(scanned)
    IN  IF ~looksLikeSsml(trimmed)
        THEN [threw |-> FALSE, plan |-> plainTextPlan(trimmed)]
        ELSE IF scanned.threw
        THEN [threw |-> ~Caught(TRUE), plan |-> plainTextFallback(trimmed)]
        ELSE [threw |-> FALSE,
              plan |-> SpeechPlan(closed.segments,
                                  extractPlainText(closed.segments), TRUE,
                                  closed.warnings)]

SsmlInit ==
    /\ \E n \in 0..MaxAtoms : ssInput \in InputsOfLen(n)
    /\ ssPc = "idle"
    /\ ssPlan = SpeechPlan(<<>>, <<>>, FALSE, <<>>)

\* A call of parseSsmlLite
SsmlCall ==
    /\ ssPc = "idle"
    /\ LET r == parseSsmlLite(ssInput)
       IN  /\ ssPc' = IF r.threw THEN "threw" ELSE "returned"
           /\ ssPlan' = IF r.threw THEN ssPlan ELSE r.plan
    /\ UNCHANGED ssInput

SsmlAtRest == ssInput = <<>> /\ SsmlInit

----------------------------------------------------------------------------
(* parseDialogue (packages/core/src/dialogue/parser.ts): a script is the   *)
(* sequence of its lines                                                   *)

MaxLines == 4

DEFAULT_MAX_SPEAKERS == 10
DEFAULT_MAX_CUES == 100

\* The lines of a script: blank, a comment, a pause directive, a line of
\* one of three speakers, and a line of no known form
SpeakerLines == {"Alice: Hi", "Bob: Hey", "Carol: Yo"}
ScriptLines == {"", "# note", "[pause 350ms]", "???"} \cup SpeakerLines

\* Group 1 of lineMatch, trimmed
SpeakerOf(line) ==
    CASE line = "Alice: Hi" -> "Alice"
      [] line = "Bob: Hey" -> "Bob"
      [] line = "Carol: Yo" -> "Carol"

\* Group 2 of lineMatch, trimmed
TextOf(line) ==
    CASE line = "Alice: Hi" -> "Hi"
      [] line = "Bob: Hey" -> "Hey"
      [] line = "Carol: Yo" -> "Yo"

\* parseInt of group 1 of pauseMatch
PauseMs(line) == 350

APPROVED_VOICE_IDS ==
    {"af_aoede", "af_jessica", "af_sky", "am_eric", "am_fenrir", "am_liam",
     "am_onyx", "bf_alice", "bf_emma", "bf_isabella", "bm_george",
     "bm_lewis"}

\* The voices of VOICES whose gender is male
MaleVoices ==
    {"am_eric", "am_fenrir", "am_liam", "am_onyx", "bm_george", "bm_lewis"}

AUTO_CAST_POOL ==
    <<"bm_george", "af_jessica", "am_eric", "bf_emma", "am_fenrir",
      "af_aoede", "bm_lewis", "bf_alice", "am_liam", "af_sky", "am_onyx",
      "bf_isabella">>

\* The voice of each preset
PRESETS ==
    [assistant |-> "af_jessica", narrator |-> "bm_george",
     announcer |-> "am_eric", storyteller |-> "bf_emma",
     whisper |-> "af_sky"]

\* What a cast may hold for a speaker: nothing, a preset, a voice id with
\* a space and capitals, a name that is neither
CastValues == {"", "narrator", " AF_JESSICA", "bogus"}

\* The casts: Carol never has an entry
CastMaps == [{"Alice", "Bob"} -> CastValues]

\* The options: the defaults, or one of the two caps lowered
DialogueOptions ==
    [cast : CastMaps,
     caps : {<<DEFAULT_MAX_SPEAKERS, DEFAULT_MAX_CUES>>,
             <<2, DEFAULT_MAX_CUES>>, <<DEFAULT_MAX_SPEAKERS, 3>>}]

\* explicitCast[speaker], "" when there is no entry
Explicit(explicitCast, speaker) ==
    IF speaker \in DOMAIN explicitCast THEN explicitCast[speaker] ELSE ""

\* input.trim().toLowerCase()
TrimLower(input) == IF input = " AF_JESSICA" THEN "af_jessica" ELSE input

\* resolveToVoiceId; "" stands for null
resolveToVoiceId(input) ==
    LET lower == TrimLower(input)
    IN  IF lower \in APPROVED_VOICE_IDS THEN lower
        ELSE IF lower \in DOMAIN PRESETS THEN PRESETS[lower]
        ELSE ""

PoolAt(idx) == AUTO_CAST_POOL[(idx % Len(AUTO_CAST_POOL)) + 1]

pickAutoVoice_FromCursor(used, startIdx) ==
    [voiceId |-> PoolAt(startIdx), nextIdx |-> startIdx + 1]

pickAutoVoice_Stride(used, startIdx) ==
    LET free == {i \in 0..(Len(AUTO_CAST_POOL) - 1) :
                    PoolAt(startIdx + i) \notin used}
    IN  IF free # {}
        THEN [voiceId |-> PoolAt(startIdx + Min(free)),
              nextIdx |-> ((startIdx + Min(free)) % Len(AUTO_CAST_POOL)) + 2]
        ELSE [voiceId |-> PoolAt(startIdx), nextIdx |-> startIdx + 1]

\* The next voice of the pool that is not used, from startIdx on and
\* around; the voice at startIdx when every voice is used
pickAutoVoice(used, startIdx) ==
    LET free == {i \in 0..(Len(AUTO_CAST_POOL) - 1) :
                    PoolAt(startIdx + i) \notin used}
    IN  IF free # {}
        THEN [voiceId |-> PoolAt(startIdx + Min(free)),
              nextIdx |-> ((startIdx + Min(free)) % Len(AUTO_CAST_POOL)) + 1]
        ELSE [voiceId |-> PoolAt(startIdx), nextIdx |-> startIdx + 1]

\* The state of resolveCast before its loop
Cast0(warnings) ==
    [result |-> <<>>, usedVoices |-> {}, autoIdx |-> 0, warnings |-> warnings]

\* One speaker is cast by name
CastExplicit(c, speaker, voiceId) ==
    [c EXCEPT !.result = @ @@ (speaker :> voiceId),
              !.usedVoices = @ \cup {voiceId}]

\* One speaker is cast from the pool
CastAuto(c, speaker) ==
    LET auto == pickAutoVoice(c.usedVoices, c.autoIdx)
    IN  [c EXCEPT !.result = @ @@ (speaker :> auto.voiceId),
                  !.usedVoices = @ \cup {auto.voiceId},
                  !.autoIdx = auto.nextIdx]

\* The loop of resolveCast from speaker i on
RECURSIVE CastFrom(_, _, _, _)
CastFrom(c, speakers, explicitCast, i) ==
    IF i > Len(speakers) THEN c
    ELSE LET speaker == speakers[i]
             explicit == Explicit(explicitCast, speaker)
             voiceId == resolveToVoiceId(explicit)
         IN  CastFrom(
                IF explicit # "" /\ voiceId # ""
                THEN CastExplicit(c, speaker, voiceId)
                ELSE IF explicit # ""
                THEN CastAuto([c EXCEPT !.warnings =
                                 Append(@, "DIALOGUE_CAST_INVALID")],
                              speaker)
                ELSE CastAuto(c, speaker),
                speakers, explicitCast, i + 1)

resolveCast(speakers, explicitCast, warnings) ==
    CastFrom(Cast0(warnings), speakers, explicitCast, 1)

PauseCue(durationMs) ==
    [type |-> "pause", speaker |-> "", text |-> "", voiceId |-> "",
     durationMs |-> durationMs]
LineCue(speaker, text, voiceId) ==
    [type |-> "line", speaker |-> speaker, text |-> text,
     voiceId |-> voiceId, durationMs |-> 0]

\* speakerSet.add(speaker): the speakers in the order of their first lines
AddSpeaker(speakers, speaker) ==
    IF \E k \in 1..Len(speakers) : speakers[k] = speaker THEN speakers
    ELSE Append(speakers, speaker)

\* The state of parseDialogue before its loop over the lines
Lines0 == [cues |-> <<>>, speakers |-> <<>>, warnings |-> <<>>, threw |-> ""]

LineStep_NoCueCap(p, line, maxSpeakers, maxCues) ==
    IF line \in {"", "# note"} THEN p
    ELSE IF line = "[pause 350ms]"
    THEN [p EXCEPT !.cues = Append(@, PauseCue(Min({PauseMs(line), 5000})))]
    ELSE IF line \in SpeakerLines
    THEN LET speakers == AddSpeaker(p.speakers, SpeakerOf(line))
             cues == Append(p.cues,
                            LineCue(SpeakerOf(line), TextOf(line), ""))
         IN  IF Len(speakers) > maxSpeakers
             THEN [p EXCEPT !.speakers = speakers,
                            !.threw = "Too many speakers"]
             ELSE [p EXCEPT !.speakers = speakers, !.cues = cues,
                            !.threw = IF Len(cues) > maxCues
                                      THEN "Too many cues" ELSE ""]
    ELSE [p EXCEPT !.warnings = Append(@, "DIALOGUE_UNRECOGNIZED_LINE")]

\* One pass of the loop over the lines
LineStep(p, line, maxSpeakers, maxCues) ==
    IF line \in {"", "# note"} THEN p
    ELSE IF line = "[pause 350ms]"
    THEN LET cues == Append(p.cues, PauseCue(Min({PauseMs(line), 5000})))
         IN  [p EXCEPT !.cues = cues,
                       !.threw = IF Len(cues) > maxCues
                                 THEN "Too many cues" ELSE ""]
    ELSE IF line \in SpeakerLines
    THEN LET speakers == AddSpeaker(p.speakers, SpeakerOf(line))
             cues == Append(p.cues,
                            LineCue(SpeakerOf(line), TextOf(line), ""))
         IN  IF Len(speakers) > maxSpeakers
             THEN [p EXCEPT !.speakers = speakers,
                            !.threw = "Too many speakers"]
             ELSE [p EXCEPT !.speakers = speakers, !.cues = cues,
                            !.threw = IF Len(cues) > maxCues
                                      THEN "Too many cues" ELSE ""]
    ELSE [p EXCEPT !.warnings = Append(@, "DIALOGUE_UNRECOGNIZED_LINE")]

RECURSIVE LinesFrom(_, _, _, _, _)
LinesFrom(p, lines, i, maxSpeakers, maxCues) ==
    IF p.threw # "" \/ i > Len(lines) THEN p
    ELSE LinesFrom(LineStep(p, lines[i], maxSpeakers, maxCues), lines, i + 1,
                   maxSpeakers, maxCues)

CueSheet(cues, cast, speakers, warnings) ==
    [cues |-> cues, cast |-> cast, speakers |-> speakers,
     warnings |-> warnings]

ApplyCast_Pool(cues, resolvedCast) ==
    [k \in 1..Len(cues) |->
        IF cues[k].type = "line"
        THEN [cues[k] EXCEPT !.voiceId = PoolAt(k)]
        ELSE cues[k]]

\* The cues with the voices of the cast
ApplyCast(cues, resolvedCast) ==
    [k \in 1..Len(cues) |->
        IF cues[k].type = "line"
        THEN [cues[k] EXCEPT !.voiceId =
                IF cues[k].speaker \in DOMAIN resolvedCast
                THEN resolvedCast[cues[k].speaker] ELSE ""]
        ELSE cues[k]]

\* parseDialogue: the DialogueParseError thrown, or "" and the CueSheet
parseDialogue(script, options) ==
    LET p == LinesFrom(Lines0, script, 1, options.caps[1], options.caps[2])
        c == resolveCast(p.speakers, options.cast, p.warnings)
    IN  IF p.threw # "" THEN [threw |-> p.threw, sheet |-> <<>>]
        ELSE IF p.cues = <<>>
        THEN [threw |-> "No valid dialogue lines found in script",
              sheet |-> <<>>]
        ELSE [threw |-> "",
              sheet |-> CueSheet(ApplyCast(p.cues, c.result), c.result,
                                 p.speakers, c.warnings)]

DgInit ==
    /\ \E n \in 0..MaxLines : dgScript \in [1..n -> ScriptLines]
    /\ dgOptions \in DialogueOptions
    /\ dgPc = "idle"
    /\ dgThrew = ""
    /\ dgSheet = CueSheet(<<>>, <<>>, <<>>, <<>>)

\* A call of parseDialogue
DgCall ==
    /\ dgPc = "idle"
    /\ LET r == parseDialogue(dgScript, dgOptions)
       IN  /\ dgPc' = IF r.threw # "" THEN "threw" ELSE "returned"
           /\ dgThrew' = r.threw
           /\ dgSheet' = IF r.threw # "" THEN dgSheet ELSE r.sheet
    /\ UNCHANGED <<dgScript, dgOptions>>

DgAtRest ==
    /\ dgScript = <<>>
    /\ dgOptions = [cast |-> [s \in {"Alice", "Bob"} |-> ""],
                    caps |-> <<DEFAULT_MAX_SPEAKERS, DEFAULT_MAX_CUES>>]
    /\ DgInit

----------------------------------------------------------------------------
(* resolveCast (packages/core/src/dialogue/parser.ts) on its own: the      *)
(* speakers of a script of many speakers, as parseDialogue passes them     *)
(* when maxSpeakers allows them                                            *)

MaxSpeakers == 14

\* The speakers in the order of their first lines: "1", "2", ...
SpeakerNames(n) == [k \in 1..n |-> ToString(k)]

\* The speakers that a cast may name
CastSpeakers == {"1", "2", "12"}

\* A voice id, the last of the pool, or a name that is no voice
CastEntries == {"", "bm_george", "bf_isabella", "bogus"}

CastInit ==
    /\ \E n \in 0..MaxSpeakers : rcSpeakers = SpeakerNames(n)
    /\ rcCast \in [CastSpeakers -> CastEntries]
    /\ rcPc = "idle"
    /\ rcOut = Cast0(<<>>)

\* A call of resolveCast
CastCall ==
    /\ rcPc = "idle"
    /\ rcPc' = "returned"
    /\ rcOut' = resolveCast(rcSpeakers, rcCast, <<>>)
    /\ UNCHANGED <<rcSpeakers, rcCast>>

CastAtRest ==
    /\ rcSpeakers = <<>>
    /\ rcCast = [s \in CastSpeakers |-> ""]
    /\ CastInit

----------------------------------------------------------------------------
(* parseSfxTags (packages/core/src/sfx/parser.ts): a text is a sequence of *)
(* characters and of whole bracket tags                                    *)

MaxSfxAtoms == 5
MaxSfxEvents == 2

\* SFX_MAX_EVENTS is 30 in the program; the model scales it down
SFX_MAX_EVENTS == MaxSfxEvents

SFX_TAGS == {"ding", "chime", "whoosh", "click", "pop", "tada"}

\* What SFX_TAG_RE matches: two known tags, one of them also in capitals,
\* and one unknown tag
BracketTags == {"[ding]", "[DING]", "[chime]", "[boom]"}

SfxAtoms == {"a", " "} \cup BracketTags

\* match[1].toLowerCase()
SfxTagName(tag) ==
    CASE tag \in {"[ding]", "[DING]"} -> "ding"
      [] tag = "[chime]" -> "chime"
      [] tag = "[boom]" -> "boom"

SfxText(value) == [type |-> "text", value |-> value, tag |-> ""]
SfxEvent(tag) == [type |-> "sfx", value |-> <<>>, tag |-> tag]

SfxParseResult(segments, warnings, sfxCount) ==
    [segments |-> segments, warnings |-> warnings, sfxCount |-> sfxCount]

\* SFX_TAG_RE.test(text)
hasSfxTags(text) == \E k \in 1..Len(text) : text[k] \in BracketTags

\* The result when the feature is disabled
SfxDisabled(text) ==
    SfxParseResult(<<SfxText(text)>>,
                   IF hasSfxTags(text) THEN <<"SFX_DISABLED">> ELSE <<>>, 0)

\* The state before the loop over the matches; before is the text since
\* lastIndex
Sfx0 ==
    [segments |-> <<>>, warnings |-> <<>>, sfxCount |-> 0,
     maxReached |-> FALSE, before |-> <<>>]

\* The text before a match, or the tail, is pushed when it is not blank
SfxFlush(st) ==
    [st EXCEPT !.segments = IF Trim(st.before) # <<>>
                            THEN Append(@, SfxText(Trim(st.before))) ELSE @,
               !.before = <<>>]

SfxMatch_Uncapped(st, tag) ==
    IF SfxTagName(tag) \notin SFX_TAGS
    THEN [st EXCEPT !.warnings = Append(@, "SFX_UNKNOWN_TAG"),
                    !.segments = Append(@, SfxText(<<tag>>))]
    ELSE [st EXCEPT !.sfxCount = @ + 1,
                    !.segments = Append(@, SfxEvent(SfxTagName(tag)))]

\* The branches of the loop body for one match, after the text before it
SfxMatch(st, tag) ==
    IF SfxTagName(tag) \notin SFX_TAGS
    THEN [st EXCEPT !.warnings = Append(@, "SFX_UNKNOWN_TAG"),
                    !.segments = Append(@, SfxText(<<tag>>))]
    ELSE IF st.maxReached
    THEN [st EXCEPT !.segments = Append(@, SfxText(<<tag>>))]
    ELSE IF st.sfxCount + 1 > SFX_MAX_EVENTS
    THEN [st EXCEPT !.maxReached = TRUE,
                    !.warnings = Append(@, "SFX_MAX_EVENTS"),
                    !.segments = Append(@, SfxText(<<tag>>))]
    ELSE [st EXCEPT !.sfxCount = @ + 1,
                    !.segments = Append(@, SfxEvent(SfxTagName(tag)))]

\* The loop over the matches, from atom i on
RECURSIVE SfxScan(_, _, _)
SfxScan(st, text, i) ==
    IF i > Len(text) THEN st
    ELSE IF text[i] \in BracketTags
    THEN SfxScan(SfxMatch(SfxFlush(st), text[i]), text, i + 1)
    ELSE SfxScan([st EXCEPT !.before = Append(@, text[i])], text, i + 1)

parseSfxTags(text, enabled) ==
    IF ~enabled THEN SfxDisabled(text)
    ELSE LET st == SfxFlush(SfxScan(Sfx0, text, 1))
             segments == IF st.segments = <<>> /\ Trim(text) # <<>>
                         THEN <<SfxText(Trim(text))>> ELSE st.segments
         IN  SfxParseResult(segments, st.warnings, st.sfxCount)

SfxInit ==
    /\ \E n \in 0..MaxSfxAtoms : sfText \in [1..n -> SfxAtoms]
    /\ sfEnabled \in BOOLEAN
    /\ sfPc = "idle"
    /\ sfResult = SfxParseResult(<<>>, <<>>, 0)

\* A call of parseSfxTags
SfxCall ==
    /\ sfPc = "idle"
    /\ sfPc' = "returned"
    /\ sfResult' = parseSfxTags(sfText, sfEnabled)
    /\ UNCHANGED <<sfText, sfEnabled>>

SfxAtRest == sfText = <<>> /\ sfEnabled = FALSE /\ SfxInit

----------------------------------------------------------------------------
(* parseEmotionSpans (packages/core/src/emotion/parser.ts): a text is a    *)
(* sequence of characters and of whole {name} and {/name} tags             *)

MaxEmoAtoms == 5

\* Speeds in hundredths
EMOTION_SPEED_MIN == 85
EMOTION_SPEED_MAX == 115

EMOTION_MAP ==
    [neutral |-> [voiceId |-> "bm_george", speed |-> 100],
     serious |-> [voiceId |-> "bm_george", speed |-> 100],
     friendly |-> [voiceId |-> "am_liam", speed |-> 100],
     professional |-> [voiceId |-> "af_jessica", speed |-> 100],
     calm |-> [voiceId |-> "bm_george", speed |-> 95],
     joy |-> [voiceId |-> "am_eric", speed |-> 103],
     urgent |-> [voiceId |-> "am_fenrir", speed |-> 108],
     whisper |-> [voiceId |-> "am_onyx", speed |-> 92]]

EMOTION_NAMES == DOMAIN EMOTION_MAP

clampEmotionSpeed(speed) ==
    Max({EMOTION_SPEED_MIN, Min({EMOTION_SPEED_MAX, speed})})

\* The tags that EMOTION_SPAN_RE can open and close a match with: the
\* name of an emotion and a name that is none
OpenTags == {"{joy}", "{wow}"}
CloseTags == {"{/joy}", "{/wow}"}

EmoAtoms == {"a", " "} \cup OpenTags \cup CloseTags

\* Groups 1 and 3 of a match
EmoName(tag) == IF tag \in {"{joy}", "{/joy}"} THEN "joy" ELSE "wow"

EmotionSpan(emotion, text) ==
    [emotion |-> emotion, text |-> text,
     voiceId |-> EMOTION_MAP[emotion].voiceId,
     speed |-> clampEmotionSpeed(EMOTION_MAP[emotion].speed)]

pushNeutralSpan(spans, text) == Append(spans, EmotionSpan("neutral", text))

\* The next match of EMOTION_SPAN_RE from atom pos on: the first opening
\* tag and the first closing tag after it; <<0, 0>> when there is none
EmoMatch(text, pos) ==
    LET opens == {o \in pos..Len(text) : text[o] \in OpenTags}
        o == Min(opens)
        closes == {c \in (o + 1)..Len(text) : text[c] \in CloseTags}
    IN  IF opens = {} THEN <<0, 0>>
        ELSE IF closes = {} THEN <<0, 0>>
        ELSE <<o, Min(closes)>>

\* The state before the loop; lastIndex counts atoms
Emo0 == [spans |-> <<>>, warnings |-> <<>>, lastIndex |-> 0]

\* The untagged text from lastIndex up to atom to is pushed when it is
\* not blank
EmoBefore(st, text, to) ==
    LET before == Trim(SubSeq(text, st.lastIndex + 1, to))
    IN  IF before # <<>>
        THEN [st EXCEPT !.spans = pushNeutralSpan(@, before)] ELSE st

EmoResolve_Silent(st, openName, trimmed) ==
    IF openName \in EMOTION_NAMES
    THEN [st EXCEPT !.spans = Append(@, EmotionSpan(openName, trimmed))]
    ELSE [st EXCEPT !.spans = Append(@, EmotionSpan("neutral", trimmed))]

\* The emotion of a span is resolved and the span pushed
EmoResolve(st, openName, trimmed) ==
    IF openName \in EMOTION_NAMES
    THEN [st EXCEPT !.spans = Append(@, EmotionSpan(openName, trimmed))]
    ELSE [st EXCEPT !.warnings = Append(@, "EMOTION_UNSUPPORTED"),
                    !.spans = Append(@, EmotionSpan("neutral", trimmed))]

\* The loop body for the match from atom o to atom c
EmoSpan(st, text, o, c) ==
    LET s1 == EmoBefore(st, text, o - 1)
        trimmed == Trim(SubSeq(text, o + 1, c - 1))
        s2 == IF EmoName(text[o]) # EmoName(text[c])
              THEN [s1 EXCEPT !.warnings = Append(@, "EMOTION_MISMATCH"),
                              !.spans = pushNeutralSpan(@, SubSeq(text, o, c))]
              ELSE IF trimmed = <<>> THEN s1
              ELSE EmoResolve(s1, EmoName(text[o]), trimmed)
    IN  [s2 EXCEPT !.lastIndex = c]

\* The loop over the matches
RECURSIVE EmoScan(_, _)
EmoScan(st, text) ==
    LET m == EmoMatch(text, st.lastIndex + 1)
    IN  IF m = <<0, 0>> THEN st
        ELSE EmoScan(EmoSpan(st, text, m[1], m[2]), text)

parseEmotionSpans(text) ==
    LET st == EmoScan(Emo0, text)
        tailed == EmoBefore(st, text, Len(text))
        spans == IF tailed.spans = <<>> /\ st.lastIndex = 0
                        /\ Trim(text) # <<>>
                 THEN pushNeutralSpan(<<>>, Trim(text)) ELSE tailed.spans
    IN  [spans |-> spans, warnings |-> tailed.warnings]

EmoInit ==
    /\ \E n \in 0..MaxEmoAtoms : emText \in [1..n -> EmoAtoms]
    /\ emPc = "idle"
    /\ emResult = [spans |-> <<>>, warnings |-> <<>>]

\* A call of parseEmotionSpans
EmoCall ==
    /\ emPc = "idle"
    /\ emPc' = "returned"
    /\ emResult' = parseEmotionSpans(emText)
    /\ UNCHANGED emText

EmoAtRest == emText = <<>> /\ EmoInit

----------------------------------------------------------------------------
(* concatWavBase64 (packages/core/src/orchestrator/concat.ts): a WAV       *)
(* buffer is the record of the fields of its 44-byte header and the bytes  *)
(* of its data chunk; audioBytesBase64 stands for the buffer it decodes to *)

MaxWavChunks == 3
MaxSamples == 2

\* Sample rates low enough for a few samples to last whole milliseconds
SampleRates == {3, 4}

\* The byte that every sample of the k-th chunk is made of
SampleByte(k) == k

\* The chunk artifacts: a WAV file of some samples, bytes that are no WAV
\* file, or an artifact with neither audioPath nor audioBytesBase64;
\* durationMs is what the backend reported
ChunkArtifacts ==
    [kind : {"wav"}, sampleRate : SampleRates, samples : 0..MaxSamples,
     durationMs : {0, 1000}]
    \cup {[kind |-> k, sampleRate |-> 3, samples |-> 1, durationMs |-> 1000] :
            k \in {"junk", "none"}}

\* The widths in bytes of the fields of the header, in order
HeaderWidths == <<4, 4, 4, 4, 4, 2, 2, 4, 4, 2, 2, 4, 4>>

RECURSIVE Sum(_)
Sum(s) == IF s = <<>> THEN 0 ELSE s[1] + Sum(Tail(s))

buildWavFile(pcmData, sampleRate) ==
    [riff |-> "RIFF", riffSize |-> (44 + Len(pcmData)) - 8, wave |-> "WAVE",
     fmtId |-> "fmt ", fmtSize |-> 16, format |-> 1, channels |-> 1,
     sampleRate |-> sampleRate, byteRate |-> sampleRate * 2 * 1,
     blockAlign |-> 2 * 1, bitsPerSample |-> 2 * 8,
     dataId |-> "data", dataSize |-> Len(pcmData), data |-> pcmData]

\* The buffer of the k-th chunk
WavBuffer(k, chunk) ==
    LET pcm == [i \in 1..(2 * chunk.samples) |-> SampleByte(k)]
    IN  IF chunk.kind = "wav" THEN buildWavFile(pcm, chunk.sampleRate)
        ELSE [buildWavFile(pcm, chunk.sampleRate) EXCEPT !.riff = "JUNK"]

\* wav.length
WavLength(wav) == Sum(HeaderWidths) + Len(wav.data)

\* parseWavData; <<>> stands for null.  The chunk at offset 12 is the fmt
\* chunk of 16 bytes, so the loop looks for the data chunk at offset 36
parseWavData(wav) ==
    IF WavLength(wav) < 44 \/ wav.riff # "RIFF" \/ wav.wave # "WAVE" THEN <<>>
    ELSE IF ~(12 < WavLength(wav) - 8) THEN <<>>
    ELSE IF ~(12 + 8 + wav.fmtSize < WavLength(wav) - 8) THEN <<>>
    ELSE IF wav.dataId # "data" THEN <<>>
    ELSE LET dataStart == 12 + 8 + wav.fmtSize + 8
             dataEnd == Min({dataStart + wav.dataSize, WavLength(wav)})
         IN  <<[sampleRate |-> wav.sampleRate,
                data |-> SubSeq(wav.data, 1, dataEnd - dataStart)]>>

\* The state before the loop over the chunks
Concat0 == [buffers |-> <<>>, totalDataSize |-> 0, sampleRate |-> 24000]

\* The loop over the chunks, from chunk k on
RECURSIVE ConcatFrom(_, _, _)
ConcatFrom(st, chunks, k) ==
    IF k > Len(chunks) THEN st
    ELSE LET parsed == parseWavData(WavBuffer(k, chunks[k]))
         IN  ConcatFrom(
                IF chunks[k].kind = "none" \/ parsed = <<>> THEN st
                ELSE [buffers |-> Append(st.buffers, parsed[1].data),
                      totalDataSize |-> st.totalDataSize + Len(parsed[1].data),
                      sampleRate |-> parsed[1].sampleRate],
                chunks, k + 1)

\* Buffer.concat
RECURSIVE BufferConcat(_)
BufferConcat(buffers) ==
    IF buffers = <<>> THEN <<>>
    ELSE buffers[1] \o BufferConcat(Tail(buffers))

\* Math.round(x / y) for x >= 0 and y > 0
RoundDiv(x, y) == (2 * x + y) \div (2 * y)

WavDuration_Reported(chunks, dataChunk, sampleRate) ==
    Sum([k \in 1..Len(chunks) |-> chunks[k].durationMs])

\* Math.round((numSamples / sampleRate) * 1000)
WavDuration(chunks, dataChunk, sampleRate) ==
    RoundDiv((Len(dataChunk) \div 2) * 1000, sampleRate)

\* concatWavBase64: the Error thrown, or the WAV file and its duration
concatWavBase64(chunks) ==
    LET st == ConcatFrom(Concat0, chunks, 1)
        dataChunk == BufferConcat(st.buffers)
    IN  IF st.buffers = <<>>
        THEN [threw |-> TRUE, wav |-> <<>>, durationMs |-> 0]
        ELSE [threw |-> FALSE,
              wav |-> <<buildWavFile(dataChunk, st.sampleRate)>>,
              durationMs |-> WavDuration(chunks, dataChunk, st.sampleRate)]

WavInit ==
    /\ \E n \in 0..MaxWavChunks : wvChunks \in [1..n -> ChunkArtifacts]
    /\ wvPc = "idle"
    /\ wvOut = [threw |-> FALSE, wav |-> <<>>, durationMs |-> 0]

\* A call of concatWavBase64, up to the settling of its promise
WavCall ==
    /\ wvPc = "idle"
    /\ LET r == concatWavBase64(wvChunks)
       IN  /\ wvPc' = IF r.threw THEN "threw" ELSE "returned"
           /\ wvOut' = r
    /\ UNCHANGED wvChunks

WavAtRest == wvChunks = <<>> /\ WavInit

----------------------------------------------------------------------------
(* Specifications: one per component, the other components at rest *)

\* The state of a component that a specification leaves at rest.
SemAtRest == SemInit /\ maxConcurrent = 1
RateAtRest == RateInit /\ config = [maxCalls |-> 1, windowMs |-> 1]
ToAtRest == ToInit
OrchAtRest ==
    /\ OrchInit
    /\ oRunner = "runPlan"
    /\ oUpstream = 0
    /\ oSpans = <<>>
    /\ oOpts = [concat |-> FALSE, artifactMode |-> "base64",
                outputDir |-> FALSE]

SrvAtRest == SrvInit /\ requestTimeoutMs = 0
ChunkAtRest == chText = <<>> /\ chOptions = CHUNK_LIMITS /\ ChunkInit
MoreAtRest == CastAtRest /\ SfxAtRest /\ EmoAtRest /\ WavAtRest
TextAtRest == ChunkAtRest /\ SsmlAtRest /\ DgAtRest /\ MoreAtRest
RestAtRest == SemAtRest /\ RateAtRest /\ ToAtRest /\ OrchAtRest /\ SrvAtRest

SemSpecInit ==
    SemInit /\ RateAtRest /\ ToAtRest /\ OrchAtRest /\ SrvAtRest /\ TextAtRest

SemNext ==
    \/ /\ \E c \in Callers : Run(c)
       /\ UNCHANGED exceptSem
    \/ /\ \E c \in Callers, ok \in BOOLEAN : Settle(c, ok)
       /\ UNCHANGED exceptSem
    \/ QueueUser /\ UNCHANGED exceptSem
    \/ Yield /\ UNCHANGED exceptSem
    \/ Macrotask /\ UNCHANGED exceptSem
    \/ Microtask /\ UNCHANGED exceptSem

SemSpec == SemSpecInit /\ [][SemNext]_vars

RateSpecInit ==
    RateInit /\ SemAtRest /\ ToAtRest /\ OrchAtRest /\ SrvAtRest /\ TextAtRest

RateNext ==
    \/ /\ \E k \in Tools : Check(k)
       /\ UNCHANGED exceptRate
    \/ Clear /\ UNCHANGED exceptRate
    \/ Tick /\ UNCHANGED exceptRate

RateSpec == RateSpecInit /\ [][RateNext]_vars

TimeoutSpecInit ==
    ToInit /\ SemAtRest /\ RateAtRest /\ OrchAtRest /\ SrvAtRest /\ TextAtRest

ToNext ==
    \/ /\ \E ms \in (-1)..MaxMs : CallWithTimeout(ms)
       /\ UNCHANGED exceptTo
    \/ /\ \E ok \in BOOLEAN : FnSettles(ok)
       /\ UNCHANGED exceptTo
    \/ TimerFires /\ UNCHANGED exceptTo
    \/ ToTick /\ UNCHANGED exceptTo

TimeoutSpec == TimeoutSpecInit /\ [][ToNext]_vars

OrchSpecInit ==
    OrchInit /\ SemAtRest /\ RateAtRest /\ ToAtRest /\ SrvAtRest /\ TextAtRest

OrchNext ==
    \/ RunCall /\ UNCHANGED exceptOrch
    \/ /\ \E d \in Durations : SynthFulfils(d)
       /\ UNCHANGED exceptOrch
    \/ SynthRejects /\ UNCHANGED exceptOrch
    \/ /\ \E d \in Durations : ConcatFulfils(d)
       /\ UNCHANGED exceptOrch
    \/ ConcatThrows /\ UNCHANGED exceptOrch
    \/ Abort /\ UNCHANGED exceptOrch

OrchSpec == OrchSpecInit /\ [][OrchNext]_vars

\* The server: the rate limiter, the semaphore and the timers together.
\* The handlers catch what they await, so their promises fulfil or stay
\* pending.
ServerInit ==
    /\ SemInit
    /\ maxConcurrent = maxConcurrentSynth
    /\ RateInit
    /\ config = [maxCalls |-> MaxCallsBound, windowMs |-> MaxWindowBound]
    /\ SrvInit
    /\ ToAtRest
    /\ OrchAtRest
    /\ TextAtRest

ServerNext ==
    \/ /\ \E r \in Requests, k \in Tools : ToolCall(r, k)
       /\ UNCHANGED exceptServer
    \/ /\ \E r \in Requests : Deliver(r)
       /\ UNCHANGED <<semVars, rateVars, exceptServer>>
    \/ /\ \E r \in Requests : Expire(r)
       /\ UNCHANGED <<semVars, rateVars, exceptServer>>
    \/ Elapse /\ UNCHANGED exceptRate
    \/ /\ \E c \in Callers : Settle(c, TRUE)
       /\ Quiet
       /\ UNCHANGED exceptSem
    \/ Yield /\ Quiet /\ UNCHANGED exceptSem
    \/ Macrotask /\ Quiet /\ UNCHANGED exceptSem
    \/ Microtask /\ Quiet /\ UNCHANGED exceptSem

ServerSpec == ServerInit /\ [][ServerNext]_vars

\* The event loop runs what is queued, time passes, and a timer that is due
\* whenever the loop comes round is run; nothing is assumed of the
\* handlers, which may never settle.
ServerFairSpec ==
    /\ ServerSpec
    /\ WF_vars(Yield /\ Quiet /\ UNCHANGED exceptSem)
    /\ WF_vars(Microtask /\ Quiet /\ UNCHANGED exceptSem)
    /\ WF_vars(Elapse /\ UNCHANGED exceptRate)
    /\ WF_vars((\E r \in Requests : Deliver(r))
               /\ UNCHANGED <<semVars, rateVars, exceptServer>>)
    /\ SF_vars((\E r \in Requests : Expire(r))
               /\ UNCHANGED <<semVars, rateVars, exceptServer>>)

\* Every promise reaction queued is eventually run and caller code returns
\* to the event loop; every fn that has started eventually settles (the
\* hypothesis of the progress claims).
SemFairSpec ==
    /\ SemSpec
    /\ WF_vars(Yield /\ UNCHANGED exceptSem)
    /\ WF_vars(Macrotask /\ UNCHANGED exceptSem)
    /\ WF_vars(Microtask /\ UNCHANGED exceptSem)
    /\ \A c \in Callers :
          SF_vars((\E ok \in BOOLEAN : Settle(c, ok))
                  /\ UNCHANGED exceptSem)

ChunkSpecInit ==
    RestAtRest /\ SsmlAtRest /\ DgAtRest /\ MoreAtRest /\ ChunkInit

ChunkNext == ChunkCall /\ UNCHANGED exceptChunk

ChunkSpec == ChunkSpecInit /\ [][ChunkNext]_vars

SsmlSpecInit ==
    RestAtRest /\ ChunkAtRest /\ DgAtRest /\ MoreAtRest /\ SsmlInit

SsmlNext == SsmlCall /\ UNCHANGED exceptSsml

SsmlSpec == SsmlSpecInit /\ [][SsmlNext]_vars

DgSpecInit ==
    RestAtRest /\ ChunkAtRest /\ SsmlAtRest /\ MoreAtRest /\ DgInit

DgNext == DgCall /\ UNCHANGED exceptDg

DgSpec == DgSpecInit /\ [][DgNext]_vars

CastSpecInit ==
    /\ RestAtRest /\ ChunkAtRest /\ SsmlAtRest /\ DgAtRest
    /\ SfxAtRest /\ EmoAtRest /\ WavAtRest
    /\ CastInit

CastNext == CastCall /\ UNCHANGED exceptCast

CastSpec == CastSpecInit /\ [][CastNext]_vars

SfxSpecInit ==
    /\ RestAtRest /\ ChunkAtRest /\ SsmlAtRest /\ DgAtRest
    /\ CastAtRest /\ EmoAtRest /\ WavAtRest
    /\ SfxInit

SfxNext == SfxCall /\ UNCHANGED exceptSfx

SfxSpec == SfxSpecInit /\ [][SfxNext]_vars

EmoSpecInit ==
    /\ RestAtRest /\ ChunkAtRest /\ SsmlAtRest /\ DgAtRest
    /\ CastAtRest /\ SfxAtRest /\ WavAtRest
    /\ EmoInit

EmoNext == EmoCall /\ UNCHANGED exceptEmo

EmoSpec == EmoSpecInit /\ [][EmoNext]_vars

WavSpecInit ==
    /\ RestAtRest /\ ChunkAtRest /\ SsmlAtRest /\ DgAtRest
    /\ CastAtRest /\ SfxAtRest /\ EmoAtRest
    /\ WavInit

WavNext == WavCall /\ UNCHANGED exceptWav

WavSpec == WavSpecInit /\ [][WavNext]_vars


----------------------------------------------------------------------------
(* Claims about SynthesisSemaphore *)

SemTypeOK ==
    /\ running \in Nat
    /\ pc \in [Callers -> {"idle", "queued", "woken", "running", "settled",
                           "done", "busy"}]
    /\ \A i \in 1..Len(queue) : pc[queue[i]] = "queued"

\* The callers whose fn has been invoked.
HasStarted(c) == pc[c] \in {"running", "settled", "done"}

\* The callers whose fn has been invoked and whose promise is still pending.
InFlight == {c \in Callers : pc[c] = "running"}

\* C1: in every reachable state the number of admitted callers whose fn has
\* started and not yet settled is at most maxConcurrent.
C1_ActiveAtMostMax ==
    /\ Cardinality(InFlight) <= maxConcurrent
    /\ active <= maxConcurrent

\* A call made with no free slot and a waiter queued is rejected on the spot.
C2_BusyStep(c) ==
    (Run(c) /\ active >= maxConcurrent /\ waiting >= 1) =>
        /\ pc'[c] = "busy"
        /\ result'[c] = Busy
        /\ queue' = queue

\* A rejected call stays rejected; its fn is never invoked.
C2_BusyIsFinal(c) ==
    pc[c] = "busy" =>
        /\ pc'[c] = "busy"
        /\ result'[c] = Busy
        /\ outcome'[c] = NoValue

\* C2: at most one caller waits in the queue; a run() call made while
\* active >= maxConcurrent and a waiter is queued is rejected at once with
\* BusyError, is never put on the queue and its fn is never invoked.
C2_OneWaiter ==
    /\ [](waiting <= 1)
    /\ [](\A c \in Callers : pc[c] = "busy" =>
            /\ c \notin wasQueued
            /\ \A i \in 1..Len(queue) : queue[i] # c
            /\ ~HasStarted(c)
            /\ outcome[c] = NoValue)
    /\ [][\A c \in Callers : C2_BusyStep(c) /\ C2_BusyIsFinal(c)]_vars

C2_Witness ==
    \E c \in Callers : pc[c] = "busy" /\ waiting = 1 /\ active >= maxConcurrent

\* What a step that rejects call c leaves unchanged.
C3_RejectionFrame(c) ==
    (Run(c) /\ pc'[c] = "busy") =>
        /\ active' = active
        /\ waiting' = waiting
        /\ queue' = queue
        /\ mq' = mq
        /\ \A d \in Callers \ {c} :
              pc'[d] = pc[d] /\ outcome'[d] = outcome[d] /\ result'[d] = result[d]

\* A completed call carries the outcome of its own fn.
C3_OwnResult(c) ==
    pc[c] = "done" =>
        /\ result[c] = outcome[c]
        /\ outcome[c] \in {Fulfilled(c), Rejected(c)}

\* C3: a run() call rejected with BusyError leaves active and waiting (and
\* every other call) as they were, and the running caller and the queued
\* caller each still complete with the result of their own fn.
C3_RejectionDisturbsNothing ==
    /\ [][\A c \in Callers : C3_RejectionFrame(c)]_vars
    /\ [](\A c \in Callers : C3_OwnResult(c))
    /\ \A c \in Callers :
          ((\E b \in Callers : pc[b] = "busy")
              /\ pc[c] \in {"running", "settled", "queued", "woken"})
          ~> (pc[c] = "done" /\ result[c] = outcome[c])

C3_Witness ==
    \E r, q, b \in Callers :
        /\ pc[b] = "busy"
        /\ r < b /\ q < b /\ r # q
        /\ q \in wasQueued
        /\ pc[r] = "done" /\ result[r] = outcome[r]
        /\ pc[q] = "done" /\ result[q] = outcome[q]

\* The step in which the finally block of call c runs.
C4_ReleaseStep(c) ==
    (pc[c] = "settled" /\ pc'[c] = "done") =>
        /\ active' = active - 1
        /\ released'[c] = 1
        /\ result'[c] = outcome[c]
        /\ (outcome[c] = Rejected(c) => result'[c] = Rejected(c))
        /\ queue # <<>> =>
              /\ queue' = Tail(queue)
              /\ pc'[Head(queue)] = "woken"
              /\ mq'[Len(mq')] = ResumeJob(Head(queue))

\* running counts the calls between running++ and running--.
C4_CountsHolders ==
    /\ active = Cardinality({c \in Callers : pc[c] \in {"running", "settled"}})
    /\ \A c \in Callers : released[c] = (IF pc[c] = "done" THEN 1 ELSE 0)

\* Every admitted call has settled.
C4_Quiescent ==
    (\A c \in Callers : pc[c] \in {"idle", "busy", "done"}) =>
        (active = 0 /\ waiting = 0)

\* C4: when an admitted fn settles, fulfilled or rejected, active is
\* decremented exactly once and the queued waiter (if any) is dequeued and
\* woken; a rejection of fn reaches the caller of run() unchanged; once every
\* admitted call has settled, active = 0 and waiting = 0.
C4_ReleaseOnSettle ==
    /\ [][\A c \in Callers : C4_ReleaseStep(c)]_vars
    /\ [](C4_CountsHolders /\ C4_Quiescent)

C4_Witness ==
    \E c, w \in Callers :
        /\ pc[c] = "done" /\ result[c] = Rejected(c) /\ released[c] = 1
        /\ w \in wasQueued /\ pc[w] = "woken"

\* C5: no run() call that arrives after the waiter was put on the queue
\* starts its fn before the waiter's fn starts.
C5_WaiterStartsNext ==
    \A w, c \in Callers :
        (w \in wasQueued /\ ~HasStarted(w) /\ w < c) => ~HasStarted(c)

\* C6: if every started fn eventually settles, a caller put on the queue
\* eventually has its fn started and its run() promise settled.
C6_WaiterEventuallyRuns ==
    \A c \in Callers :
        (pc[c] = "queued") ~> (pc[c] = "done" /\ result[c] = outcome[c])

C6_Witness ==
    \E c \in Callers :
        /\ c \in wasQueued
        /\ pc[c] = "done"
        /\ result[c] \in {Fulfilled(c), Rejected(c)}

----------------------------------------------------------------------------
(* Claims about ToolRateLimiter *)

\* C7: for each key, at any check time t the number of admitted calls with a
\* timestamp in (t - windowMs, t] never exceeds maxCalls, and the bucket of
\* the key never holds more than maxCalls timestamps.
C7_WindowCeiling ==
    \A k \in Tools :
        /\ Len(InWindow(admitted[k], now)) <= config.maxCalls
        /\ Len(buckets[k]) <= config.maxCalls

C7_Witness ==
    /\ lastCheck.key \in Tools
    /\ ~lastCheck.ok
    /\ config.maxCalls >= 2
    /\ Len(buckets[lastCheck.key]) = config.maxCalls
    /\ Len(InWindow(admitted[lastCheck.key], now)) = config.maxCalls

\* The bucket of k holds maxCalls calls made at distinct times inside one
\* window.
C8_Full(k) ==
    /\ k \in present
    /\ Len(buckets[k]) = config.maxCalls
    /\ \A i \in 1..(Len(buckets[k]) - 1) : buckets[k][i] < buckets[k][i + 1]
    /\ buckets[k][Len(buckets[k])] - buckets[k][1] < config.windowMs

\* The window of the oldest call of the bucket has elapsed at time t, the
\* window of the next one has not.
C8_OnlyOldestElapsed(k, t) ==
    /\ t >= buckets[k][1] + config.windowMs
    /\ Len(buckets[k]) >= 2 => t < buckets[k][2] + config.windowMs

\* A check on a full bucket of k.
C8_CheckStep(k) ==
    (C8_Full(k) /\ Check(k)) =>
        /\ now < buckets[k][1] + config.windowMs =>
              /\ ~lastCheck'.ok
              /\ buckets'[k] = buckets[k]
        /\ now >= buckets[k][1] + config.windowMs => lastCheck'.ok
        /\ C8_OnlyOldestElapsed(k, now) =>
              /\ lastCheck'.ok
              /\ lastCheck'.evicted = 1
              /\ buckets'[k] = Append(Tail(buckets[k]), now)
              /\ ~(Allowed(k, now))'

\* C8: with maxCalls = N and N calls admitted at distinct times inside one
\* window, a check made before the window of the oldest call has elapsed is
\* rejected; a check made once it has elapsed is admitted; and when it is made
\* while only the oldest call has left the window, exactly one slot was free:
\* one timestamp is evicted and a check immediately after is rejected again.
C8_OneSlotFrees == [][\A k \in Tools : C8_CheckStep(k)]_vars

C8_Witness ==
    /\ lastCheck.key \in Tools
    /\ lastCheck.ok
    /\ lastCheck.time = now
    /\ config.maxCalls >= 2
    /\ lastCheck.evicted = 1
    /\ Len(buckets[lastCheck.key]) = config.maxCalls
    /\ buckets[lastCheck.key][1] < now
    /\ ~Allowed(lastCheck.key, now)

\* s is what is left of b after removing some of its first elements.
IsSuffix(s, b) ==
    \E i \in 0..Len(b) : s = SubSeq(b, i + 1, Len(b))

\* What a check on k leaves unchanged.
C9_CheckFrame(k) ==
    Check(k) =>
        /\ ~lastCheck'.ok =>
              /\ IsSuffix(buckets'[k], buckets[k])
              /\ admitted' = admitted
        /\ \A j \in Tools \ {k} :
              /\ buckets'[j] = buckets[j]
              /\ (j \in present') = (j \in present)
              /\ admitted'[j] = admitted[j]
              /\ \A t \in now..MaxTime : (Allowed(j, t))' = Allowed(j, t)

\* The state after clear().
C9_ClearStep ==
    Clear =>
        /\ present' = {}
        /\ \A k \in Tools : buckets'[k] = <<>> /\ (Allowed(k, now))'

\* C9: a check() that returns false records no timestamp; a check() on one
\* key changes neither the bucket nor the admission decisions of another key;
\* clear() empties every bucket, so that the next check on any key is admitted.
C9_RejectionAndClear ==
    [][C9_ClearStep /\ \A k \in Tools : C9_CheckFrame(k)]_vars

C9_Witness ==
    /\ lastCheck.key \in Tools
    /\ ~lastCheck.ok
    /\ lastCheck.time = now
    /\ \E j \in Tools \ {lastCheck.key} : j \in present /\ buckets[j] # <<>>

----------------------------------------------------------------------------
(* Claims about withTimeout *)

\* C10: with ms <= 0, withTimeout never produces a TimeoutError; its outcome
\* is the outcome of fn, fulfilment or rejection, however long fn takes.
C10_NoLimitNoTimeout ==
    (toPc = "called" /\ toMs <= 0) =>
        /\ toResult # TimeoutError
        /\ toTimer = "none"
        /\ toFn = "pending" => toResult = NoValue
        /\ toFn = "fulfilled" => toResult = FnValue
        /\ toFn = "rejected" => toResult = FnError

C10_Witness ==
    /\ toPc = "called"
    /\ toMs = 0
    /\ toFn = "rejected"
    /\ toResult = FnError
    /\ toFnAt > toStart + 1

\* The outcome of fn as the caller of withTimeout sees it.
FnOutcome ==
    IF toFn = "fulfilled" THEN FnValue
    ELSE IF toFn = "rejected" THEN FnError
    ELSE NoValue

\* With a limit, the state of the timer tells which event came first.
C11_FirstEventWins ==
    (toPc = "called" /\ toMs > 0) =>
        /\ toTimer \in {"armed", "cleared", "fired"}
        /\ toTimer = "armed" => (toFn = "pending" /\ toResult = NoValue)
        /\ toTimer = "cleared" =>
               (toFn # "pending" /\ toResult = FnOutcome
                /\ toResult # TimeoutError)
        /\ toTimer = "fired" => toResult = TimeoutError

\* The promise settles once, and a cancelled timer never fires.
C11_SettledStays ==
    /\ toResult # NoValue => toResult' = toResult
    /\ toTimer = "cleared" => toTimer' = "cleared"
    /\ TimerFires => (toFn = "pending" /\ toClock = toDue
                      /\ toResult' = TimeoutError)

\* C11: withTimeout(fn, ms) with ms > 0 settles exactly once with the
\* outcome of the event that happens first: if fn settles before the timer
\* fires, its value or error is propagated and the timer is cancelled, so
\* no TimeoutError follows; if the timer fires first, the call rejects with
\* TimeoutError (code REQUEST_TIMEOUT) while fn is still pending.
C11_SettlesOnceFirstWins ==
    /\ [](C11_FirstEventWins)
    /\ [][C11_SettledStays]_vars

\* fn settled first, the due time of the cancelled timer has passed.
C11_Witness ==
    /\ toPc = "called"
    /\ toMs > 0
    /\ toTimer = "cleared"
    /\ toResult = FnError
    /\ toClock > toDue

\* A step taken after the TimeoutError was delivered.
C12_AfterTimeout ==
    (toResult = TimeoutError) =>
        /\ toResult' = TimeoutError
        /\ TimerFires => toFn' = "pending"
        /\ toFn' # toFn =>
               (toFn = "pending" /\ toFn' \in {"fulfilled", "rejected"})

\* C12: after withTimeout has rejected with TimeoutError the wrapped
\* operation is not cancelled: it is still pending and can still fulfil or
\* reject, and that later settlement is discarded, never changing the
\* TimeoutError already delivered.
C12_LateOutcomeDiscarded ==
    /\ []((toTimer = "fired" /\ toFn = "pending") =>
             (ENABLED FnSettles(TRUE) /\ ENABLED FnSettles(FALSE)))
    /\ [][C12_AfterTimeout]_vars
    /\ [][TimerFires => toFn' = "pending"]_vars

\* The timer fired and fn fulfilled afterwards.
C12_Witness ==
    /\ toTimer = "fired"
    /\ toFn = "fulfilled"
    /\ toResult = TimeoutError
    /\ toFnAt > toDue

----------------------------------------------------------------------------
(* Claims about runPlan and runEmotionPlan *)

\* Chunk a comes before chunk b in the order of the plan.
Before(a, b) == a.span < b.span \/ (a.span = b.span /\ a.i < b.i)

\* The function has returned a result.
Returned == oPc = "returned"

WithCode(w, code) == {k \in 1..Len(w) : w[k].code = code}

\* A step that issues a synthesize call.
IssuesCall == Len(oCalls') > Len(oCalls)

\* The result of an interrupted run, but for what the warning names.
C15_InterruptedResult ==
    (Returned /\ oResult.interrupted) =>
        /\ oAborted
        /\ Cardinality(WithCode(oResult.warnings,
                                "SYNTHESIS_INTERRUPTED")) = 1
        /\ oResult.chunks = oArtifacts
        /\ oResult.chunkCount = Len(oCalls)

\* No synthesize call is issued once the flag is set, and a run that finds
\* it set before a call returns an interrupted result.
C15_StopsAtAbort ==
    /\ [](C15_InterruptedResult)
    /\ [][IssuesCall => ~oAborted]_vars
    /\ []((Returned /\ oAborted /\ Len(oCalls) < TotalChunks(oSpans)) =>
             oResult.interrupted)

\* C15: the cancellation flag is read before every synthesize call; once it
\* is seen set no further call is made, the result has interrupted = true
\* and exactly one SYNTHESIS_INTERRUPTED warning, which names the number of
\* chunks completed, and the artifacts of the completed chunks are kept.
C15_NamesChunksCompleted ==
    /\ C15_StopsAtAbort
    /\ [](Returned =>
            \A k \in WithCode(oResult.warnings, "SYNTHESIS_INTERRUPTED") :
                oResult.warnings[k].n = oResult.chunkCount)

\* C16: a result with interrupted = true has a chunkCount strictly less
\* than the number of chunks planned: cancellation is only seen before a
\* synthesize call, so at least one planned chunk was not synthesized.
C16_InterruptedIsPartial ==
    (Returned /\ oResult.interrupted) =>
        /\ oResult.chunkCount < TotalChunks(oSpans)
        /\ Len(oCalls) < TotalChunks(oSpans)

\* Interrupted before the last chunk, all the others synthesized.
C16_Witness ==
    /\ Returned
    /\ oResult.interrupted
    /\ oResult.chunkCount >= 2
    /\ oResult.chunkCount = TotalChunks(oSpans) - 1

ConcatDue ==
    /\ Returned
    /\ oOpts.concat
    /\ oResult.chunkCount > 1
    /\ ~oResult.interrupted

\* The result shows the concatenation of its delivery mode, or its failure.
ConcatShown ==
    \/ oOpts.artifactMode = "base64" /\ oResult.concatBase64
    \/ oOpts.artifactMode = "path" /\ oResult.concatPath
    \/ WithCode(oResult.warnings, "CONCAT_FAILED") # {}

\* With an output directory given in path mode the claim holds.
C18_WithOutputDir ==
    (ConcatDue /\ (oOpts.artifactMode = "path" => oOpts.outputDir)) =>
        ConcatShown

\* C18: whenever concatenation was requested, more than one chunk was
\* synthesized and the run was not interrupted, the WAV concatenation of
\* the delivery mode is invoked: the result carries concatBase64 (base64
\* mode) or concatPath (path mode), or else a CONCAT_FAILED warning.
C18_ConcatOrWarning == ConcatDue => ConcatShown

\* The step in which the awaited concatenation settles.
ConcatSettles == oPc = "concat" /\ oPc' # "concat"

\* What the function returns when the concatenation has thrown.
C19_AfterThrow ==
    /\ oPc' = "returned"
    /\ oResult'.chunks = oArtifacts
    /\ oResult'.chunkCount = Len(oArtifacts)
    /\ ~oResult'.concatPath
    /\ ~oResult'.concatBase64
    /\ oResult'.totalDurationMs = SumDurations(oArtifacts)
    /\ oResult'.warnings = Append(oWarnings, ConcatFailed)
    /\ WithCode(oWarnings, "CONCAT_FAILED") = {}

\* C19: if the WAV concatenation throws, runPlan and runEmotionPlan do not
\* throw: they return every per-chunk artifact with chunkCount unchanged,
\* no concat field, totalDurationMs the sum of the durationMs of the chunks
\* and exactly one CONCAT_FAILED warning appended after the earlier ones.
C19_ConcatFailureIsWarning ==
    /\ [][ConcatThrows => C19_AfterThrow]_vars
    /\ [][ConcatSettles =>
            (oPc' = "returned"
             /\ (oResult'.concatPath \/ oResult'.concatBase64
                 \/ C19_AfterThrow))]_vars

\* The concatenation failed after chunking and upstream warnings were
\* collected.
C19_Witness ==
    /\ Returned
    /\ WithCode(oResult.warnings, "CONCAT_FAILED") = {Len(oResult.warnings)}
    /\ Len(oResult.warnings) >= 3
    /\ oResult.chunkCount = 2
    /\ oResult.totalDurationMs = 3
    /\ ~oResult.concatPath
    /\ ~oResult.concatBase64

\* The warnings that runPlan receives: those of the plan, then those of
\* chunkText when the text is not empty.
UpstreamOfPlan ==
    Upstream \o (IF oSpans = <<>> THEN <<>> ELSE ChunkWarnings(0))

\* C20: the warnings of a runPlan result are every warning of plan.warnings
\* followed by every warning of the chunker, in their order and unmodified;
\* the warnings of the orchestrator (SYNTHESIS_INTERRUPTED, CONCAT_FAILED)
\* come only after them, on every return path.
C20_UpstreamWarningsKept ==
    (Returned /\ oRunner = "runPlan") =>
        /\ Len(oResult.warnings) >= Len(UpstreamOfPlan)
        /\ SubSeq(oResult.warnings, 1, Len(UpstreamOfPlan)) = UpstreamOfPlan
        /\ \A k \in (Len(UpstreamOfPlan) + 1)..Len(oResult.warnings) :
              oResult.warnings[k].code \in
                  {"SYNTHESIS_INTERRUPTED", "CONCAT_FAILED"}

\* Two warnings of the plan, two of the chunker, then one of runPlan.
C20_Witness ==
    /\ Returned
    /\ oRunner = "runPlan"
    /\ oUpstream = 2
    /\ oSpans # <<>>
    /\ Len(ChunkWarnings(0)) = 2
    /\ Len(oResult.warnings) = 5
    /\ oResult.warnings[5].code = "SYNTHESIS_INTERRUPTED"

----------------------------------------------------------------------------
(* Claims about the server *)

\* The responses a guarded tool call can get.
C13_Responses ==
    {RateLimited, Busy, TimeoutError} \cup {Fulfilled(c) : c \in Callers}

\* A request has at most one response, of one of the four kinds.
C13_AtMostOne ==
    \A r \in Requests :
        /\ sResponses[r] <= 1
        /\ sResponses[r] = 1 <=> sResp[r] # NoValue
        /\ sResp[r] # NoValue => (sTool[r] \in Tools /\ sResp[r] \in C13_Responses)

\* The response of a request, once returned, stays.
C13_ResponseStays ==
    \A r \in Requests : sResp[r] # NoValue => sResp'[r] = sResp[r]

\* C13: with requestTimeoutMs > 0 every voice_speak or voice_dialogue
\* request receives exactly one response, a tool result or an error with
\* code RATE_LIMITED, BUSY or REQUEST_TIMEOUT, even when its handler never
\* settles or the request is still queued behind another one.
C13_ExactlyOneResponse ==
    /\ [](requestTimeoutMs > 0 => C13_AtMostOne)
    /\ [][requestTimeoutMs > 0 => C13_ResponseStays]_vars
    /\ \A r \in Requests :
          (requestTimeoutMs > 0 /\ sTool[r] \in Tools) ~> (sResponses[r] = 1)

\* A request answered REQUEST_TIMEOUT while still queued behind a request
\* whose handler has not settled, one answered BUSY, one still pending.
C13_Witness ==
    /\ requestTimeoutMs > 0
    /\ \E r \in Requests :
          /\ sResp[r] = TimeoutError
          /\ pc[sCaller[r]] = "queued"
    /\ \E r \in Requests : sResp[r] = Busy
    /\ \E r \in Requests :
          /\ sResp[r] = NoValue
          /\ sCaller[r] # 0
          /\ pc[sCaller[r]] = "running"

----------------------------------------------------------------------------
(* Claims about chunkText *)

Chunks == chResult.chunks

\* The text as the cascade receives it
Input == Capped(chText, chOptions.maxTotalChars).input

\* C21: every chunk that chunkText returns is at most maxChunkChars long,
\* after the cascade of splitters down to the hard split and after the
\* merge of the tiny chunks.
C21_ChunksWithinMax ==
    chDone => \A k \in 1..Len(Chunks) :
                  Len(Chunks[k]) <= chOptions.maxChunkChars

\* A text that the hard split had to cut, into chunks of which one is as
\* long as a chunk may be.
C21_Witness ==
    /\ chDone
    /\ ~FitsOneChunk(Input, chOptions.maxChunkChars)
    /\ Refined(Input, chOptions) # Clauses(Input, chOptions)
    /\ Len(Chunks) > 1
    /\ \E k \in 1..Len(Chunks) : Len(Chunks[k]) = chOptions.maxChunkChars

\* C22, as the specification states it: a text T no longer than
\* maxChunkChars comes back as the one chunk T, and wasChunked is false.
C22_ShortTextIsOneChunk ==
    chDone /\ Len(chText) <= chOptions.maxChunkChars
        => Chunks = <<chText>> /\ ~chResult.wasChunked

\* C22, amended: a text whose trimmed form is no longer than maxChunkChars
\* and than maxTotalChars comes back as the one chunk trim(T), or as no
\* chunk when T is blank, and wasChunked is false.
C22_ShortTextIsOneTrimmedChunk ==
    /\ chDone
    /\ Len(Trim(chText)) <= chOptions.maxChunkChars
    /\ Len(Trim(chText)) <= chOptions.maxTotalChars
    => /\ Chunks = IF Trim(chText) = <<>> THEN <<>> ELSE <<Trim(chText)>>
       /\ ~chResult.wasChunked

\* A short text with white space around it and a blank line inside it.
C22_Witness ==
    /\ chDone
    /\ Len(chText) <= chOptions.maxChunkChars
    /\ chText # Trim(chText)
    /\ Len(splitByParagraphs(chText)) > 1
    /\ Chunks = <<Trim(chText)>>

HasWarning(code) == \E k \in 1..Len(chResult.warnings) : chResult.warnings[k] = code

\* C23: chunkText returns at most maxChunks chunks; wasChunked is true
\* exactly when there is more than one chunk and exactly when there is a
\* CHUNKED_TEXT warning; wasTruncated is true exactly when there is a
\* TRUNCATED warning.
C23_CountAndFlags ==
    chDone =>
        /\ Len(Chunks) <= chOptions.maxChunks
        /\ chResult.wasChunked <=> Len(Chunks) > 1
        /\ chResult.wasChunked <=> HasWarning("CHUNKED_TEXT")
        /\ chResult.wasTruncated <=> HasWarning("TRUNCATED")

\* A text under the cap on its length of which the cap on the number of
\* chunks drops chunks.
C23_Witness ==
    /\ chDone
    /\ Len(Trim(chText)) <= chOptions.maxTotalChars
    /\ Len(Cascade(Input, chOptions)) > chOptions.maxChunks
    /\ Len(Chunks) = chOptions.maxChunks
    /\ Len(Chunks) > 1
    /\ chResult.wasTruncated
    /\ chResult.wasChunked

----------------------------------------------------------------------------
(* Claims about parseSsmlLite *)

Trimmed == Trim(ssInput)
Segments == ssPlan.segments
Events == SelectSeq(Segments, LAMBDA s : s.type = "event")
PlanWarnings(code) == SelectSeq(ssPlan.warnings, LAMBDA w : w = code)

IsSpeechPlan(plan) ==
    /\ DOMAIN plan = {"segments", "plainText", "wasSSML", "warnings"}
    /\ plan.wasSSML \in BOOLEAN
    /\ \A k \in 1..Len(plan.segments) :
            plan.segments[k].type \in {"text", "event"}

\* C24, as the specification states it: parseSsmlLite returns a SpeechPlan
\* and throws for no input, and an input that fails the tag sniff comes
\* back as a single Text segment, with wasSSML false and no warning.
C24_ReturnsPlanOneSegment ==
    ssPc # "idle" =>
        /\ ssPc = "returned"
        /\ IsSpeechPlan(ssPlan)
        /\ ~looksLikeSsml(Trimmed) =>
                /\ Len(Segments) = 1
                /\ Segments[1].type = "text"
                /\ ~ssPlan.wasSSML
                /\ ssPlan.warnings = <<>>

\* C24, amended: parseSsmlLite returns a SpeechPlan and throws for no
\* input; an input that fails the tag sniff comes back with wasSSML false
\* and no warning, as the single Text segment of its trimmed text, or as
\* no segment when it is blank.
C24_ReturnsPlanTrimmedSegment ==
    ssPc # "idle" =>
        /\ ssPc = "returned"
        /\ IsSpeechPlan(ssPlan)
        /\ ~looksLikeSsml(Trimmed) =>
                /\ Segments = IF Trimmed = <<>> THEN <<>>
                              ELSE <<TextSegment(Trimmed)>>
                /\ ~ssPlan.wasSSML
                /\ ssPlan.warnings = <<>>

\* An input with white space around a closing tag that nothing opened:
\* it fails the sniff.
C24_Witness ==
    /\ ssPc = "returned"
    /\ ~looksLikeSsml(Trimmed)
    /\ Trimmed # ssInput
    /\ \E i \in 1..Len(ssInput) : ssInput[i] = "</prosody>"
    /\ Segments = <<TextSegment(Trimmed)>>

\* What the scan counted when it ended or gave up
Counted == Scanned(Trimmed)

OverCap ==
    \/ Counted.nodeCount > SSML_LIMITS.maxNodes
    \/ Counted.totalChars > SSML_LIMITS.maxTotalChars

\* C25: when the scan of an SSML input counts more than maxNodes tags or
\* more than maxTotalChars characters of text, the plan has wasSSML true,
\* no event, at most one Text segment, which holds the text without its
\* tags, and the one warning SSML_PARSE_FAILED.
C25_OverCapDegrades ==
    ssPc # "idle" /\ looksLikeSsml(Trimmed) /\ OverCap =>
        /\ ssPc = "returned"
        /\ ssPlan.wasSSML
        /\ Events = <<>>
        /\ Len(Segments) <= 1
        /\ \A k \in 1..Len(Segments) :
                /\ Segments[k].value = stripAllTags(Trimmed)
                /\ \A i \in 1..Len(Segments[k].value) :
                        Segments[k].value[i] \notin SsmlTags
        /\ ssPlan.warnings = <<"SSML_PARSE_FAILED">>

\* The scan had a warning and an event when it met one tag too many.
C25_Witness ==
    /\ ssPc = "returned"
    /\ looksLikeSsml(Trimmed)
    /\ Counted.nodeCount > SSML_LIMITS.maxNodes
    /\ Counted.warnings # <<>>
    /\ \E k \in 1..Len(Counted.segments) : Counted.segments[k].type = "event"
    /\ ssPlan.warnings = <<"SSML_PARSE_FAILED">>

Breaks == SelectSeq(Events, LAMBDA s : s.event = "break")
BreakTagsOf(input) == {input[i] : i \in 1..Len(input)} \cap BreakTags

\* C26: every Break event has 0 <= timeMs <= maxBreakMs whatever the time
\* or strength attribute holds; a time above the cap gives maxBreakMs and
\* a break without attributes gives 250.
C26_BreakTimeWithinCap ==
    ssPc = "returned" =>
        \A k \in 1..Len(Breaks) :
            /\ ~Breaks[k].timeMs.nan
            /\ 0 <= Breaks[k].timeMs.v
            /\ Breaks[k].timeMs.v <= SSML_LIMITS.maxBreakMs
            /\ BreakTagsOf(ssInput) = {"<break time=5000ms/>"}
                    => Breaks[k].timeMs.v = SSML_LIMITS.maxBreakMs
            /\ BreakTagsOf(ssInput) = {"<break/>"}
                    => Breaks[k].timeMs.v = 250

\* C27, as the specification states it: plainText is the concatenation of
\* the values of the Text segments, in order, with its white space
\* collapsed, whether the input was passed through, parsed or degraded.
C27_PlainTextIsConcatenation ==
    ssPc = "returned" =>
        ssPlan.plainText = Trim(CollapseSpaces(Join(TextValues(Segments), <<>>)))

Derived(segments) == Trim(CollapseSpaces(Join(TextValues(segments), <<" ">>)))

\* C27, amended: plainText is the values of the Text segments joined by
\* single spaces, with white space collapsed and trimmed, when the input
\* was parsed or degraded; when it was passed through, plainText is the
\* value of the one Text segment as it is, which collapses to the same
\* text.  The events add nothing.
C27_PlainTextFromTextSegments ==
    ssPc = "returned" =>
        /\ ssPlan.wasSSML => ssPlan.plainText = Derived(Segments)
        /\ ~ssPlan.wasSSML =>
                ssPlan.plainText = Join(TextValues(Segments), <<>>)
        /\ Trim(CollapseSpaces(ssPlan.plainText)) = Derived(Segments)
        /\ Derived(Segments) =
                Derived(SelectSeq(Segments, LAMBDA s : s.type = "text"))

\* Two Text segments with an event between them.
C27_Witness ==
    /\ ssPc = "returned"
    /\ ssPlan.wasSSML
    /\ Len(Segments) = 3
    /\ Segments[2].type = "event"
    /\ Segments[1].value = <<"a">>
    /\ ssPlan.plainText = <<"a", " ", "a">>

Count(segments, event) ==
    Len(SelectSeq(segments, LAMBDA s : s.type = "event" /\ s.event = event))

Balanced(start, end) ==
    /\ \A k \in 0..Len(Segments) :
            Count(SubSeq(Segments, 1, k), end)
                <= Count(SubSeq(Segments, 1, k), start)
    /\ Count(Segments, end) = Count(Segments, start)

\* C28: in every prefix of the segments there are no more prosody_end
\* than prosody events and no more emphasis_end than emphasis events, and
\* over the whole plan as many; every tag still on the stack at the end
\* of the input adds one end event and one SSML_UNCLOSED_TAG warning.
C28_EventsBalanced ==
    ssPc = "returned" =>
        /\ Balanced("prosody", "prosody_end")
        /\ Balanced("emphasis", "emphasis_end")
        /\ looksLikeSsml(Trimmed) /\ ~Counted.threw =>
            /\ Len(PlanWarnings("SSML_UNCLOSED_TAG")) = Len(Counted.openStack)
            /\ Len(Segments) = Len(Counted.segments) + Len(Counted.openStack)
            /\ \A k \in (Len(Counted.segments) + 1)..Len(Segments) :
                    Segments[k].event \in {"prosody_end", "emphasis_end"}

\* A prosody tag closed by its closing tag around an emphasis tag left
\* open.
C28_Witness ==
    /\ ssPc = "returned"
    /\ ssPlan.warnings = <<"SSML_UNCLOSED_TAG">>
    /\ Count(Segments, "prosody_end") = 1
    /\ Count(Segments, "emphasis_end") = 1
    /\ Segments[Len(Segments)].event = "emphasis_end"
    /\ Segments[Len(Segments) - 1].event = "prosody_end"

----------------------------------------------------------------------------
(* Claims about parseDialogue *)

Cues == dgSheet.cues
LineCues == SelectSeq(Cues, LAMBDA cue : cue.type = "line")
SheetCast == dgSheet.cast
SheetSpeakers == dgSheet.speakers

\* C29: in every CueSheet returned, each Line cue has a voiceId that is
\* not empty and is an approved voice, the Line cues of one speaker have
\* the same voiceId, and it is cast[speaker].
C29_LineVoicesFromCast ==
    dgPc = "returned" =>
        /\ \A k \in 1..Len(LineCues) :
                /\ LineCues[k].voiceId # ""
                /\ LineCues[k].voiceId \in APPROVED_VOICE_IDS
                /\ LineCues[k].speaker \in DOMAIN SheetCast
                /\ LineCues[k].voiceId = SheetCast[LineCues[k].speaker]
        /\ \A j, k \in 1..Len(LineCues) :
                LineCues[j].speaker = LineCues[k].speaker
                    => LineCues[j].voiceId = LineCues[k].voiceId

\* A speaker with two lines and another speaker between them, one cast by
\* a preset and one whose cast is not valid.
C29_Witness ==
    /\ dgPc = "returned"
    /\ Len(LineCues) = 3
    /\ LineCues[1].speaker = LineCues[3].speaker
    /\ LineCues[1].speaker # LineCues[2].speaker
    /\ LineCues[1].voiceId # LineCues[2].voiceId
    /\ \E k \in 1..Len(dgSheet.warnings) :
            dgSheet.warnings[k] = "DIALOGUE_CAST_INVALID"
    /\ \E s \in DOMAIN dgOptions.cast : dgOptions.cast[s] = "narrator"

\* The speaker has no entry in the cast, or one that is not valid
AutoCast(speaker) ==
    resolveToVoiceId(Explicit(dgOptions.cast, speaker)) = ""

\* The voices of the speakers resolved before the k-th
Earlier(k) == {SheetCast[SheetSpeakers[j]] : j \in 1..(k - 1)}

NoExplicitCast == \A s \in DOMAIN dgOptions.cast : dgOptions.cast[s] = ""

\* C30: an auto-cast speaker receives a voice that no speaker resolved
\* before it in the script has, as long as one of the pool voices is not
\* used; with no explicit cast the first speaker receives the first pool
\* voice, bm_george, which is male, and the second another voice.
C30_AutoCastUnused ==
    dgPc = "returned" =>
        /\ \A k \in 1..Len(SheetSpeakers) :
                /\ AutoCast(SheetSpeakers[k])
                /\ \E i \in 1..Len(AUTO_CAST_POOL) :
                        AUTO_CAST_POOL[i] \notin Earlier(k)
                => SheetCast[SheetSpeakers[k]] \notin Earlier(k)
        /\ NoExplicitCast /\ Len(SheetSpeakers) >= 1 =>
                /\ SheetCast[SheetSpeakers[1]] = AUTO_CAST_POOL[1]
                /\ SheetCast[SheetSpeakers[1]] = "bm_george"
                /\ SheetCast[SheetSpeakers[1]] \in MaleVoices
        /\ NoExplicitCast /\ Len(SheetSpeakers) >= 2 =>
                SheetCast[SheetSpeakers[2]] # SheetCast[SheetSpeakers[1]]

\* The first speaker is cast by name to the first pool voice, the second
\* has a cast that is not valid and the third none: they receive the next
\* two pool voices.
C30_Witness ==
    /\ dgPc = "returned"
    /\ Len(SheetSpeakers) = 3
    /\ ~AutoCast(SheetSpeakers[1])
    /\ SheetCast[SheetSpeakers[1]] = AUTO_CAST_POOL[1]
    /\ Explicit(dgOptions.cast, SheetSpeakers[2]) = "bogus"
    /\ SheetCast[SheetSpeakers[2]] = AUTO_CAST_POOL[2]
    /\ SheetCast[SheetSpeakers[3]] = AUTO_CAST_POOL[3]

----------------------------------------------------------------------------
(* Claims about resolveCast *)

\* The voice that the k-th speaker receives
VoiceOf(k) == rcOut.result[rcSpeakers[k]]

\* The k-th speaker has no entry in the cast, or one that is not valid
IsAutoCast(k) == resolveToVoiceId(Explicit(rcCast, rcSpeakers[k])) = ""

\* The auto-cast speakers, by their positions, in the order of the script
AutoCastSpeakers ==
    SelectSeq([k \in 1..Len(rcSpeakers) |-> k], LAMBDA k : IsAutoCast(k))

\* The j-th auto-cast speaker receives a male voice when j is odd and a
\* female voice when j is even
Alternates ==
    \A j \in 1..Len(AutoCastSpeakers) :
        (VoiceOf(AutoCastSpeakers[j]) \in MaleVoices) <=> (j % 2 = 1)

UsedBefore(k) == {VoiceOf(j) : j \in 1..(k - 1)}

PoolVoices == {AUTO_CAST_POOL[i] : i \in 1..Len(AUTO_CAST_POOL)}

\* The auto-cast speakers that are cast when every pool voice is in use
CastAfterExhaustion ==
    SelectSeq(AutoCastSpeakers, LAMBDA k : PoolVoices \subseteq UsedBefore(k))

\* C37: the first speaker auto-cast after all 12 pool voices are in use
\* receives the first pool entry, the next one the second, and so on.
C37_WrapsToPoolStart ==
    rcPc = "returned" =>
        \A j \in 1..Len(CastAfterExhaustion) :
            VoiceOf(CastAfterExhaustion[j]) = PoolAt(j - 1)

\* The lines of the script that are cues: pause directives and lines of
\* a speaker
CueLines ==
    {k \in 1..Len(dgScript) : dgScript[k] \in SpeakerLines \cup {"[pause 350ms]"}}

\* The speakers that have a line in the script
ScriptSpeakers ==
    {SpeakerOf(dgScript[k]) :
        k \in {j \in 1..Len(dgScript) : dgScript[j] \in SpeakerLines}}

OverCaps ==
    \/ Cardinality(ScriptSpeakers) > dgOptions.caps[1]
    \/ Cardinality(CueLines) > dgOptions.caps[2]

\* A returned CueSheet is within both caps
WithinCaps ==
    dgPc = "returned" =>
        /\ Len(SheetSpeakers) <= dgOptions.caps[1]
        /\ Len(Cues) <= dgOptions.caps[2]

\* C32 as stated: parseDialogue throws exactly when the script has no
\* line of a speaker, more speakers than maxSpeakers or more cues than
\* maxCues.
C32_ThrowsWithoutSpeakerLine ==
    /\ dgPc # "idle" => (dgPc = "threw" <=> ScriptSpeakers = {} \/ OverCaps)
    /\ WithinCaps

\* C32: parseDialogue throws exactly when the script has no cue at all,
\* neither a line of a speaker nor a pause directive, or more speakers
\* than maxSpeakers, or more cues than maxCues; a CueSheet returned has at
\* most maxSpeakers speakers and at most maxCues cues, and a script of
\* pause directives only returns a CueSheet without speakers.
C32_ThrowsWithoutCue ==
    /\ dgPc # "idle" => (dgPc = "threw" <=> CueLines = {} \/ OverCaps)
    /\ dgPc = "threw" /\ ~OverCaps
            => dgThrew = "No valid dialogue lines found in script"
    /\ dgPc = "threw" /\ OverCaps
            => dgThrew \in {"Too many speakers", "Too many cues"}
    /\ WithinCaps
    /\ dgPc = "returned" /\ ScriptSpeakers = {} => SheetSpeakers = <<>>

\* Four cues, one of them a pause, with maxCues = 3: the fourth cue is
\* one too many.
C32_Witness ==
    /\ dgPc = "threw"
    /\ dgThrew = "Too many cues"
    /\ dgOptions.caps[2] = 3
    /\ Cardinality(CueLines) = 4
    /\ Cardinality(ScriptSpeakers) = 2
    /\ \E k \in CueLines : dgScript[k] = "[pause 350ms]"

----------------------------------------------------------------------------
(* Claims about parseSfxTags *)

SfxSegments == sfResult.segments
SfxEvents == SelectSeq(SfxSegments, LAMBDA s : s.type = "sfx")
SfxWarnings(code) == SelectSeq(sfResult.warnings, LAMBDA w : w = code)

\* The known tags of the text, in order
KnownTags ==
    SelectSeq(sfText, LAMBDA a : a \in BracketTags
                                    /\ SfxTagName(a) \in SFX_TAGS)

\* The text segments that hold a known tag as literal text, in order
LiteralKnownTags ==
    SelectSeq(SfxSegments,
              LAMBDA s : s.type = "text" /\ Len(s.value) = 1
                            /\ s.value[1] \in BracketTags
                            /\ SfxTagName(s.value[1]) \in SFX_TAGS)

\* C33: with SFX enabled sfxCount is at most SFX_MAX_EVENTS and is the
\* number of sfx segments; when the text has more known tags than the cap,
\* sfxCount is the cap, the sfx segments are the first known tags, every
\* known tag after them is a text segment that holds the tag, and there is
\* exactly one SFX_MAX_EVENTS warning; otherwise there is none.
C33_SfxCountCapped ==
    sfPc = "returned" /\ sfEnabled =>
        /\ sfResult.sfxCount <= SFX_MAX_EVENTS
        /\ sfResult.sfxCount = Len(SfxEvents)
        /\ \A k \in 1..Len(SfxEvents) :
                SfxEvents[k].tag = SfxTagName(KnownTags[k])
        /\ Len(KnownTags) > SFX_MAX_EVENTS =>
                /\ sfResult.sfxCount = SFX_MAX_EVENTS
                /\ Len(SfxWarnings("SFX_MAX_EVENTS")) = 1
                /\ [k \in 1..Len(LiteralKnownTags) |->
                        LiteralKnownTags[k].value[1]]
                    = SubSeq(KnownTags, SFX_MAX_EVENTS + 1, Len(KnownTags))
        /\ Len(KnownTags) <= SFX_MAX_EVENTS =>
                /\ sfResult.sfxCount = Len(KnownTags)
                /\ SfxWarnings("SFX_MAX_EVENTS") = <<>>
                /\ LiteralKnownTags = <<>>

\* Two known tags more than the cap, with text between them.
C33_Witness ==
    /\ sfPc = "returned"
    /\ sfEnabled
    /\ Len(KnownTags) = SFX_MAX_EVENTS + 2
    /\ sfResult.sfxCount = SFX_MAX_EVENTS
    /\ Len(LiteralKnownTags) = 2
    /\ sfResult.warnings = <<"SFX_MAX_EVENTS">>
    /\ \E k \in 1..Len(SfxSegments) : SfxSegments[k] = SfxText(<<"a">>)

----------------------------------------------------------------------------
(* Claims about parseEmotionSpans *)

EmoSpans == emResult.spans
EmoWarnings(code) == SelectSeq(emResult.warnings, LAMBDA w : w = code)

\* A stretch of untagged text from atom a to atom b, when it is not blank
GapPiece(a, b) ==
    IF Trim(SubSeq(emText, a, b)) # <<>>
    THEN <<[kind |-> "untagged", o |-> a, c |-> b]>> ELSE <<>>

\* A match from atom o to atom c, unless its names agree and its inner
\* text is blank
MatchPiece(o, c) ==
    IF EmoName(emText[o]) # EmoName(emText[c])
    THEN <<[kind |-> "mismatch", o |-> o, c |-> c]>>
    ELSE IF Trim(SubSeq(emText, o + 1, c - 1)) = <<>> THEN <<>>
    ELSE <<[kind |-> "span", o |-> o, c |-> c]>>

\* The parts of the text that are to become a span each, in order
RECURSIVE PiecesFrom(_)
PiecesFrom(pos) ==
    LET m == EmoMatch(emText, pos)
    IN  IF m = <<0, 0>> THEN GapPiece(pos, Len(emText))
        ELSE GapPiece(pos, m[1] - 1) \o MatchPiece(m[1], m[2])
                \o PiecesFrom(m[2] + 1)

Pieces == PiecesFrom(1)

\* The matches {name}...{/name} of the text, with any inner text
RECURSIVE MatchesFrom(_)
MatchesFrom(pos) ==
    LET m == EmoMatch(emText, pos)
    IN  IF m = <<0, 0>> THEN <<>>
        ELSE <<m>> \o MatchesFrom(m[2] + 1)

\* The matches whose names agree and are not the name of an emotion
UnknownSpans ==
    SelectSeq(MatchesFrom(1),
              LAMBDA m : /\ EmoName(emText[m[1]]) = EmoName(emText[m[2]])
                         /\ EmoName(emText[m[1]]) \notin EMOTION_NAMES)

Inner(m) == SubSeq(emText, m[1] + 1, m[2] - 1)

\* C34 as stated: there are as many EMOTION_UNSUPPORTED warnings as
\* matched spans of an unknown name with inner text that is not empty.
C34_WarningPerNonEmptySpan ==
    emPc = "returned" =>
        Len(EmoWarnings("EMOTION_UNSUPPORTED"))
            = Len(SelectSeq(UnknownSpans, LAMBDA m : Inner(m) # <<>>))

\* C34: every part of the text that is to become a span becomes one span,
\* in order; a matched span of an unknown name whose inner text is not
\* blank becomes the neutral span of its trimmed inner text, with the
\* voice and speed of neutral; there are as many EMOTION_UNSUPPORTED
\* warnings as such spans, and a span with blank inner text gives neither
\* a span nor a warning.
C34_WarningPerNonBlankSpan ==
    emPc = "returned" =>
        /\ Len(EmoSpans) = Len(Pieces)
        /\ \A k \in 1..Len(Pieces) :
                /\ Pieces[k].kind = "span"
                /\ EmoName(emText[Pieces[k].o]) \notin EMOTION_NAMES
                => /\ EmoSpans[k].emotion = "neutral"
                   /\ EmoSpans[k].text = Trim(Inner(<<Pieces[k].o, Pieces[k].c>>))
                   /\ EmoSpans[k].voiceId = EMOTION_MAP.neutral.voiceId
                   /\ EmoSpans[k].voiceId = "bm_george"
                   /\ EmoSpans[k].speed = 100
        /\ Len(EmoWarnings("EMOTION_UNSUPPORTED"))
            = Len(SelectSeq(UnknownSpans, LAMBDA m : Trim(Inner(m)) # <<>>))

\* Untagged text, then a span of an unknown name: two neutral spans and
\* one warning.
C34_Witness ==
    /\ emPc = "returned"
    /\ emText = <<"a", " ", "{wow}", "a", "{/wow}">>
    /\ Len(EmoSpans) = 2
    /\ EmoSpans[2] = EmotionSpan("neutral", <<"a">>)
    /\ emResult.warnings = <<"EMOTION_UNSUPPORTED">>

----------------------------------------------------------------------------
(* Claims about concatWavBase64 *)

\* The chunks that are WAV files, by their positions
WavChunks == SelectSeq([k \in 1..Len(wvChunks) |-> k],
                       LAMBDA k : wvChunks[k].kind = "wav")

\* The bytes of the data chunks of the WAV files, in order
RECURSIVE DataFrom(_)
DataFrom(j) ==
    IF j > Len(WavChunks) THEN <<>>
    ELSE [i \in 1..(2 * wvChunks[WavChunks[j]].samples) |->
            SampleByte(WavChunks[j])] \o DataFrom(j + 1)

\* The size of the data chunk of each WAV file
DataSizes == [j \in 1..Len(WavChunks) |-> 2 * wvChunks[WavChunks[j]].samples]

\* The sample rate of the last WAV file that has samples
LastRate ==
    LET full == {j \in 1..Len(WavChunks) : DataSizes[j] > 0}
    IN  wvChunks[WavChunks[Max(full)]].sampleRate

ReportedMs == Sum([k \in 1..Len(wvChunks) |-> wvChunks[k].durationMs])

Out == wvOut.wav[1]

\* C35: the WAV file returned has a data chunk whose size is the sum of
\* the sizes of the data chunks of the WAV files given, and whose bytes
\* are theirs in order; the header has 44 bytes, the ids RIFF, WAVE, fmt
\* and data, the fields of 16-bit mono PCM, and a RIFF size of the data
\* size plus 36; durationMs is the number of samples of the data chunk
\* over the sample rate, in milliseconds, rounded, whatever durationMs the
\* chunks report.  A file is returned when one of the WAV files has
\* samples.
C35_DataSizeIsSum ==
    /\ wvPc = "returned" =>
        /\ Out.dataSize = Sum(DataSizes)
        /\ Len(Out.data) = Out.dataSize
        /\ Out.data = DataFrom(1)
        /\ Sum(HeaderWidths) = 44
        /\ WavLength(Out) = 44 + Sum(DataSizes)
        /\ Out.riff = "RIFF" /\ Out.wave = "WAVE"
        /\ Out.fmtId = "fmt " /\ Out.fmtSize = 16
        /\ Out.format = 1 /\ Out.channels = 1 /\ Out.bitsPerSample = 16
        /\ Out.blockAlign = 2 /\ Out.byteRate = 2 * Out.sampleRate
        /\ Out.dataId = "data"
        /\ Out.riffSize = Out.dataSize + 36
        /\ Out.sampleRate = LastRate
        /\ wvOut.durationMs
            = RoundDiv((Sum(DataSizes) \div 2) * 1000, LastRate)
    /\ wvPc # "idle" /\ Sum(DataSizes) > 0 => wvPc = "returned"

\* Three WAV files of 2, 1 and 2 samples at 4 samples a second, which
\* report 2000 ms in all: the file returned has 10 bytes of data and
\* lasts 1250 ms.
C35_Witness ==
    /\ wvPc = "returned"
    /\ Len(WavChunks) = 3
    /\ DataSizes = <<4, 2, 4>>
    /\ \A k \in 1..3 : wvChunks[k].sampleRate = 4
    /\ ReportedMs = 2000
    /\ Out.dataSize = 10
    /\ Out.riffSize = 46
    /\ wvOut.durationMs = 1250

----------------------------------------------------------------------------
(* Claims about rejected synthesize calls *)

\* The chunk of call j comes before the chunk of call k
ChunkBefore(j, k) ==
    \/ oCalls[j].span < oCalls[k].span
    \/ oCalls[j].span = oCalls[k].span /\ oCalls[j].i < oCalls[k].i

\* No chunk is passed to synthesize twice: the calls go through the
\* chunks in order
CalledOnce ==
    \A j, k \in 1..Len(oCalls) : j < k => ChunkBefore(j, k)

\* The runner has rejected with the error of its last synthesize call and
\* has returned no SpeechResult
RejectedWithLast ==
    oPc = "threw" =>
        /\ oCalls # <<>>
        /\ oThrown = Rejected(Len(oCalls))
        /\ oResult = NoResult

\* C36: each chunk is passed to synthesize at most once; when a
\* synthesize call rejects, the runner rejects with the error of that
\* call, and from then on no synthesize call is made and no SpeechResult
\* is returned.
C36_RejectionStopsRun ==
    /\ [](CalledOnce /\ RejectedWithLast)
    /\ [](oPc # "threw" => oThrown = <<>>)
    /\ [][oPc = "threw" =>
            /\ oPc' = "threw"
            /\ oCalls' = oCalls
            /\ oThrown' = oThrown
            /\ oResult' = NoResult]_vars

\* runEmotionPlan rejects at the second of at least three chunks, in the
\* second span.
C36_Witness ==
    /\ oPc = "threw"
    /\ oRunner = "runEmotionPlan"
    /\ Len(oCalls) = 2
    /\ oCalls[2].span = 1
    /\ TotalChunks(oSpans) >= 3
    /\ oThrown = Rejected(2)
    /\ Len(oArtifacts) = 1

----------------------------------------------------------------------------
(* Claims about the server guardrails *)

\* The callers whose handler holds a slot: between this.running++ and
\* this.running-- of run().
SlotHolders == {c \in Callers : pc[c] \in {"running", "settled"}}

\* The requests whose handler has been started and has not settled.
HandlerRunning(r) == sCaller[r] # 0 /\ pc[sCaller[r]] = "running"

\* The handlers holding a slot are the ones counted by the semaphore, and
\* they are at most maxConcurrent.
WithinMaxConcurrent ==
    /\ running = Cardinality(SlotHolders)
    /\ running <= maxConcurrent

\* While the handler of a request is running, the handler of no request
\* that entered the semaphore after it has started: such a request is
\* queued or has been rejected as BUSY.
LaterRequestsBlocked ==
    \A r, q \in Requests :
        (r < q /\ HandlerRunning(r) /\ sCaller[q] # 0)
            => pc[sCaller[q]] \in {"queued", "busy"}

\* The step that answers request r with REQUEST_TIMEOUT leaves the
\* semaphore as it is.
TimeoutKeepsSlot ==
    \A r \in Requests :
        (sResp[r] # TimeoutError /\ sResp'[r] = TimeoutError)
            => UNCHANGED <<running, queue, pc>>

\* The handler of a request answered REQUEST_TIMEOUT leaves its slot only
\* by settling.
SlotHeldUntilSettled ==
    \A r \in Requests :
        (sResp[r] = TimeoutError /\ HandlerRunning(r))
            => \/ pc'[sCaller[r]] = "running" /\ running' = running
               \/ pc'[sCaller[r]] = "settled" /\ running' = running

\* C38: a timeout does not release the semaphore slot: after a request
\* has been answered REQUEST_TIMEOUT its handler occupies its slot until
\* the handler settles, so the handlers running at once stay within
\* maxConcurrent across timeouts, and a handler that never settles blocks
\* the slot for every later request.
C38_TimeoutKeepsSlot ==
    /\ [](WithinMaxConcurrent /\ LaterRequestsBlocked)
    /\ [][TimeoutKeepsSlot /\ SlotHeldUntilSettled]_vars

\* Three requests: the first answered REQUEST_TIMEOUT with its handler
\* still running in the only slot, the second answered REQUEST_TIMEOUT in
\* the queue, the third rejected as BUSY after the first timeout.
C38_Witness ==
    /\ maxConcurrent = 1
    /\ running = 1
    /\ sResp[1] = TimeoutError /\ pc[sCaller[1]] = "running"
    /\ sResp[2] = TimeoutError /\ pc[sCaller[2]] = "queued"
    /\ sResp[3] = Busy
    /\ sDue[1] < sDue[2]
    /\ sDue[3] >= sDue[1] + requestTimeoutMs

\* The time at which request r arrived, for a request that passed the
\* rate limiter: its timer was set to fire requestTimeoutMs later.
Arrival(r) == sDue[r] - requestTimeoutMs

\* The requests of tool k that passed the rate limiter.
Passed(k) == {r \in 1..sReqs : sTool[r] = k /\ sCaller[r] # 0}

\* The requests of tool k that passed the rate limiter within the window
\* that ends at time t.
Recent(k, t) == {r \in Passed(k) : Arrival(r) > t - config.windowMs}

\* A request answered RATE_LIMITED never enters the semaphore, has no
\* timer and no handler.
RateLimitedStaysOutside ==
    \A r \in Requests :
        sResp[r] = RateLimited =>
            /\ sCaller[r] = 0
            /\ sTimer[r] = "none"

\* A request that passed the rate limiter is in the bucket of its tool
\* until the window has passed, also when it is answered BUSY or
\* REQUEST_TIMEOUT: the calls counted in the window are the requests that
\* passed within it.
PassedIsRecorded ==
    \A k \in Tools :
        /\ Len(admitted[k]) = Cardinality(Recent(k, now))
        /\ \A r \in Recent(k, now) :
              /\ \E i \in 1..Len(admitted[k]) : admitted[k][i] = Arrival(r)
              /\ \E i \in 1..Len(buckets[k]) : buckets[k][i] = Arrival(r)

\* The step in which a request arrives: the call is refused, and the
\* semaphore left alone, exactly when the requests of its tool that passed
\* within the window, whatever their answers, have reached the ceiling;
\* otherwise the request enters the semaphore in the same step.
ArrivalStep ==
    sReqs' # sReqs =>
        IF Cardinality(Recent(sTool'[sReqs'], now)) >= config.maxCalls
        THEN /\ sResp'[sReqs'] = RateLimited
             /\ sCaller'[sReqs'] = 0
             /\ UNCHANGED semVars
        ELSE /\ sResp'[sReqs'] = NoValue
             /\ sCaller'[sReqs'] = calls'
             /\ calls' = calls + 1
             /\ pc'[calls'] \in {"running", "queued", "busy"}

\* C39: the guardrails apply in the order rate limit, then timeout around
\* semaphore around handler: a request rejected as RATE_LIMITED never
\* enters the semaphore and never starts its handler, while a request that
\* is later rejected as BUSY or REQUEST_TIMEOUT has been recorded in the
\* bucket of its tool and counts against the ceiling.
C39_RateLimitFirst ==
    /\ [](RateLimitedStaysOutside /\ PassedIsRecorded)
    /\ [][ArrivalStep]_vars

\* The fourth request is refused as RATE_LIMITED because of two requests
\* of its tool in the window, one answered REQUEST_TIMEOUT and one
\* answered BUSY; it has not entered the semaphore.
C39_Witness ==
    /\ sResp[4] = RateLimited
    /\ sCaller[4] = 0
    /\ calls = 3
    /\ \E r, q \in Recent(sTool[4], now) :
          /\ sResp[r] = TimeoutError
          /\ sResp[q] = Busy

\* A request answered REQUEST_TIMEOUT while its caller waits in the queue.
TimedOutInQueue(r) ==
    /\ sCaller[r] # 0
    /\ sResp[r] = TimeoutError
    /\ pc[sCaller[r]] = "queued"

\* The timer of a request runs from its arrival, whether the request
\* starts or is queued, and the timeout is answered when it is due.
TimerFromArrival ==
    /\ (sReqs' # sReqs /\ sCaller'[sReqs'] # 0) =>
          /\ sDue'[sReqs'] = now + requestTimeoutMs
          /\ requestTimeoutMs > 0 => sTimer'[sReqs'] = "armed"
    /\ \A r \in Requests :
          (sResp[r] # TimeoutError /\ sResp'[r] = TimeoutError) =>
              /\ now = sDue[r]
              /\ sTimer'[r] = "fired"

\* A request answered REQUEST_TIMEOUT in the queue stays in the queue until
\* a running request finishes and wakes it; from then on it goes through
\* run() like any other: handler started with the slot taken, handler
\* settled, slot released.
QueuedStaysQueued ==
    \A r \in Requests :
        sResp[r] = TimeoutError /\ sCaller[r] # 0 =>
            LET c == sCaller[r] IN
            /\ pc[c] = "queued" =>
                  /\ queue # <<>> /\ Head(queue) = c
                  /\ \/ pc'[c] = "queued" /\ queue' = queue
                     \/ /\ pc'[c] = "woken"
                        /\ running' = running - 1
                        /\ \E d \in Callers : pc[d] = "settled" /\ pc'[d] = "done"
            /\ pc[c] = "woken" =>
                  \/ pc'[c] = "woken"
                  \/ pc'[c] = "running" /\ running' = running + 1
            /\ pc[c] = "running" => pc'[c] \in {"running", "settled"}
            /\ pc[c] = "settled" =>
                  \/ pc'[c] = "settled"
                  \/ pc'[c] = "done" /\ running' = running - 1
            /\ pc[c] \in {"running", "settled"} => running >= 1

\* The answer REQUEST_TIMEOUT is the only answer of the request: what its
\* handler returns later is dropped.
LateResultDiscarded ==
    \A r \in Requests :
        sResp[r] = TimeoutError =>
            /\ sResponses[r] = 1
            /\ sResp'[r] = TimeoutError
            /\ sResponses'[r] = 1

\* C40: a request whose timeout expires while it is queued in the
\* semaphore stays in the queue; when the running request finishes it is
\* woken, its handler runs holding the slot, and its result is discarded;
\* the time spent queued counts toward the timeout.
C40_TimedOutWaiterStillRuns ==
    /\ [][TimerFromArrival /\ QueuedStaysQueued /\ LateResultDiscarded]_vars
    /\ \A r \in Requests :
          (TimedOutInQueue(r) /\ \E d \in Callers : pc[d] = "settled")
              ~> (sCaller[r] # 0
                  /\ pc[sCaller[r]] \in {"running", "settled", "done"})

\* The second request timed out in the queue behind the first, was woken
\* when the first finished after the timeout, and its handler has run to
\* completion: its result is there and its answer is still REQUEST_TIMEOUT.
C40_Witness ==
    /\ sCaller[1] = 1 /\ sCaller[2] = 2
    /\ 2 \in wasQueued
    /\ sTimer[2] = "fired"
    /\ sResp[2] = TimeoutError
    /\ sResponses[2] = 1
    /\ pc[2] = "done"
    /\ result[2] = Fulfilled(2)
    /\ sSeen[2]
    /\ released[2] = 1
    /\ sResp[1] = TimeoutError

=============================================================================
